---- MODULE Spec2Model ----
(***************************************************************************)
(* dotti: recommendation engine, adapters (constrained serialization) and  *)
(* the validator, modelled from the TypeScript sources.                    *)
(*                                                                         *)
(* Texts whose exact characters matter only through concatenation and      *)
(* length are TLA+ strings; file contents whose size is compared with a    *)
(* limit are ropes (sequences of slices of named sources), see Text below. *)
(*                                                                         *)
(* The specifications share the variables, each holding the other         *)
(* components idle: SpecRecommender (runRecommendations), SpecAdapters     *)
(* (one adapter.generate call), SpecValidator (validateConfigs),           *)
(* SpecPruner (findPruneTargets), SpecFixer (analyzeAgents), SpecTools     *)
(* (any one of the three project tools), SpecScanCommand (scanCommand),    *)
(* SpecWizard (wizardCommand), SpecPruneCommand (pruneCommand) and         *)
(* SpecGenerated (generated files under the validator and the fixer).      *)
(* In message texts a backquote is written ' and an em dash -.             *)
(***************************************************************************)
EXTENDS Integers, Sequences, FiniteSets, TLC

VARIABLES
  scan,          \* the ScanResult handed to the recommendation engine
  pc,            \* position inside runRecommendations: "agents", "rules", "done"
  run,           \* how many times the engine has been started on this snapshot
  agentsOut,     \* outcome of the last recommendAgents(scan)
  rulesOut,      \* outcome of the last recommendRules(scan)
  prevAgentsOut, \* outcome of recommendAgents in the run before
  prevRulesOut,  \* outcome of recommendRules in the run before
  adTool,        \* the adapter (ToolTarget) generate is called on
  adScan,        \* the ScanResult handed to the adapter
  adRec,         \* the RecommendationResult handed to the adapter
  assembled,     \* the files as the adapter's private generate* methods built them
  adOut,         \* the AdapterOutput returned by generate
  adPrev,        \* the AdapterOutput before the size step was applied once more
  adPc,          \* "input": generate not yet called; "generated"; "reapplied"
  project,       \* the files under projectRoot: path, content and size of each
  configs,       \* the ExistingConfig list scanExistingConfigs returned
  formatIssues,  \* per config, the issues its per-tool validator returned
  result,        \* the ValidationResult validateConfigs returned
  valPc,         \* "start", "scanned", "validated"; "threw" after an exception
  globbed,       \* the frontmatter patterns handed to glob() so far
  globRejects,   \* whether the glob library throws on a malformed pattern
  pruneResult,   \* the PruneResult findPruneTargets returned
  prPc,          \* "start", "scanned", "pruned"; "threw" after an exception
  fixResult,     \* the FixResult analyzeAgents returned
  fixPc,         \* "start", "scanned", "analyzed"; "threw" after an exception
  cmdScan,       \* scan: the ScanResult runScan returned to a command
  offered,       \* allAgents and allRules of wizardCommand
  recommendations, \* the RecommendationResult a command hands to generateConfigs
  options,       \* the options record of scanCommand or pruneCommand
  cmdTargets,    \* targets of scanCommand, tools of wizardCommand
  confirmAction, \* what the last prompt of wizardCommand returned
  outputs,       \* the AdapterOutput list generateConfigs returned
  pos,           \* the loop position: <<output, file>>, or the prune target
  disk,          \* the files under projectRoot a command may write: path -> content
  fsLog,         \* what the command did with each file it came to, in order
  cmdPc          \* the position inside the command

recVars == <<scan, pc, run, agentsOut, rulesOut, prevAgentsOut, prevRulesOut>>
adVars == <<adTool, adScan, adRec, assembled, adOut, adPrev, adPc>>
valVars == <<project, configs, formatIssues, result, valPc, globbed, globRejects>>
prVars == <<pruneResult, prPc>>
fixVars == <<fixResult, fixPc>>
cmdVars == <<cmdScan, offered, recommendations, options, cmdTargets, confirmAction,
             outputs, pos, disk, fsLog, cmdPc>>
vars == <<recVars, adVars, valVars, prVars, fixVars, cmdVars>>
nonRecVars == <<adVars, valVars, prVars, fixVars, cmdVars>>
nonAdVars == <<recVars, valVars, prVars, fixVars, cmdVars>>
nonValVars == <<recVars, adVars, prVars, fixVars, cmdVars>>
nonPrVars == <<recVars, adVars, fixVars, cmdVars>>
nonFixVars == <<recVars, adVars, prVars, cmdVars>>
nonCmdVars == <<recVars, adVars, valVars, prVars, fixVars>>

(***************************************************************************)
(* Bounds of the model                                                     *)
(***************************************************************************)
MaxFrameworks == 2   \* longest techStack.frameworks list enumerated
MaxRuns == 2         \* how often the engine is re-run on one snapshot
MaxRules == 2        \* longest recommendations.rules list handed to an adapter
MaxAgents == 6       \* longest recommendations.agents list handed to an adapter
MaxConfigFiles == 2  \* most AI-tool config files in a validated project

(***************************************************************************)
(* Generic helpers: JavaScript array and string primitives                 *)
(***************************************************************************)
RECURSIVE Join(_, _)
\* Array.prototype.join(sep) on an array of strings
Join(xs, sep) ==
  IF Len(xs) = 0 THEN ""
  ELSE IF Len(xs) = 1 THEN xs[1]
  ELSE xs[1] \o sep \o Join(Tail(xs), sep)

\* const name = value; rest: value is computed once and named in rest
With(value, Rest(_)) == Rest(value)

\* Array.prototype.flatMap: F maps an element to a list
FlatMap(xs, F(_)) ==
  LET f[i \in 0..Len(xs)] == IF i = 0 THEN <<>> ELSE f[i - 1] \o F(xs[i])
  IN f[Len(xs)]

\* Array.prototype.map
Map(xs, F(_)) == [i \in 1..Len(xs) |-> F(xs[i])]

\* Array.prototype.filter
Filter(xs, P(_)) ==
  LET f[i \in 0..Len(xs)] ==
        IF i = 0 THEN <<>>
        ELSE IF P(xs[i]) THEN Append(f[i - 1], xs[i]) ELSE f[i - 1]
  IN f[Len(xs)]

\* Array.prototype.some
Some(xs, P(_)) == \E i \in 1..Len(xs) : P(xs[i])

\* Array.prototype.find: the first element satisfying P, as a 0/1-element list
Find(xs, P(_)) ==
  LET hits == Filter(xs, P) IN IF Len(hits) = 0 THEN <<>> ELSE <<hits[1]>>

\* Array.prototype.slice(0, n)
Slice0(xs, n) == SubSeq(xs, 1, IF Len(xs) < n THEN Len(xs) ELSE n)

\* `${opt?.name || dflt}` for the result of Find
NameOr(found, dflt) ==
  IF Len(found) = 0 \/ found[1] = "" THEN dflt ELSE found[1]

\* `${s || dflt}`
StrOr(s, dflt) == IF s = "" THEN dflt ELSE s

Range(xs) == {xs[i] : i \in 1..Len(xs)}

CHARS_PER_TOKEN == 4

\* Math.ceil(text.length / CHARS_PER_TOKEN)
estimateTokens(text) ==
  (Len(text) + CHARS_PER_TOKEN - 1) \div CHARS_PER_TOKEN


(***************************************************************************)
(* Text: a file content as a rope, a sequence of slices                    *)
(* [src, from, len, w] = len characters of the source text src starting at *)
(* offset from, each w bytes long in UTF-8.  A literal is a slice of       *)
(* itself.  Only the characters' identity and count matter to the size     *)
(* rules, so long texts need not be spelled out.                           *)
(***************************************************************************)
Lit(str) == IF str = "" THEN <<>> ELSE <<[src |-> str, from |-> 0, len |-> Len(str), w |-> 1]>>

\* String.prototype.length
TLen(t) ==
  LET f[i \in 0..Len(t)] == IF i = 0 THEN 0 ELSE f[i - 1] + t[i].len
  IN f[Len(t)]

\* Buffer.byteLength(content, "utf-8")
ByteLength(t) ==
  LET f[i \in 0..Len(t)] == IF i = 0 THEN 0 ELSE f[i - 1] + t[i].len * t[i].w
  IN f[Len(t)]

\* String.prototype.slice(0, n)
TSlice0(t, n) ==
  LET f[i \in 0..Len(t)] ==
        IF i = 0 THEN [out |-> <<>>, left |-> n]
        ELSE LET acc == f[i - 1]
             IN IF acc.left = 0 THEN acc
                ELSE IF t[i].len <= acc.left
                     THEN [out |-> Append(acc.out, t[i]), left |-> acc.left - t[i].len]
                     ELSE [out |-> Append(acc.out, [t[i] EXCEPT !.len = acc.left]), left |-> 0]
  IN f[Len(t)].out

\* lines.join("\n") for an array of texts
JoinLines(lines) ==
  LET f[i \in 0..Len(lines)] ==
        IF i = 0 THEN <<>>
        ELSE IF i = 1 THEN lines[1]
        ELSE f[i - 1] \o Lit("\n") \o lines[i]
  IN f[Len(lines)]

\* files.reduce((sum, f) => sum + f.content.length, 0)
SumChars(files) ==
  LET f[i \in 0..Len(files)] == IF i = 0 THEN 0 ELSE f[i - 1] + TLen(files[i].content)
  IN f[Len(files)]

\* files.reduce((sum, f) => sum + f.sizeBytes, 0)
SumBytes(files) ==
  LET f[i \in 0..Len(files)] == IF i = 0 THEN 0 ELSE f[i - 1] + files[i].sizeBytes
  IN f[Len(files)]

(***************************************************************************)
(* The snapshot (ScanResult).  TypeScript types are erased at run time, so *)
(* a caller of the public API can hand over a snapshot in which a          *)
(* techStack field is undefined: scan.missing names those fields.          *)
(***************************************************************************)
TypeScript == [name |-> "TypeScript", fileCount |-> 12, extensions |-> <<".ts", ".tsx">>]
Python == [name |-> "Python", fileCount |-> 40, extensions |-> <<".py">>]

FrameworkNames == {"Express", "React", "Astro", "Next.js"}

\* lists of distinct framework names, at most MaxFrameworks long
FrameworkLists ==
  UNION {{f \in [1..n -> FrameworkNames] : \A i, j \in 1..n : f[i] = f[j] => i = j}
         : n \in 0..MaxFrameworks}

Snapshots ==
  [projectName : {"shop"},
   languages : {<<TypeScript>>, <<Python, TypeScript>>},
   frameworks : FrameworkLists,
   testing : {<<>>, <<"Vitest">>},
   database : {<<>>, <<"Prisma">>},
   deployment : {<<>>, <<"Docker">>},
   styling : {<<>>, <<"Tailwind CSS">>},
   totalFiles : {20, 21, 31, 51},
   significantPaths : {<<>>, <<"Database migrations">>},
   topLevelDirs : {<<"src", "dist", "tests">>},
   hasMonorepo : {FALSE},
   monorepoPackages : {<<>>},
   missing : {{}, {"languages"}, {"deployment"}}]

\* the snapshots enumerated: a present field is never also listed as missing,
\* and an undefined field carries no value
WellShaped(s) ==
  /\ ("languages" \in s.missing => s.languages = <<TypeScript>>)
  /\ ("deployment" \in s.missing => s.deployment = <<>>)
  /\ (s.database # <<>> => s.significantPaths = <<>>)

\* reading scan.techStack.<field>.<anything> throws a TypeError
Undefined(s, field) == field \in s.missing

(***************************************************************************)
(* Agent templates (AGENT_TEMPLATES), in catalog declaration order         *)
(***************************************************************************)
AGENT_TEMPLATES ==
  << [id |-> "code-reviewer",      name |-> "Code Reviewer",         category |-> "review"],
     [id |-> "test-writer",        name |-> "Test Writer",           category |-> "testing"],
     [id |-> "db-expert",          name |-> "Database Expert",       category |-> "database"],
     [id |-> "security-auditor",   name |-> "Security Auditor",      category |-> "security"],
     [id |-> "component-designer", name |-> "Component Designer",    category |-> "ui"],
     [id |-> "api-developer",      name |-> "API Developer",         category |-> "api"],
     [id |-> "devops-helper",      name |-> "DevOps Helper",         category |-> "devops"],
     [id |-> "perf-optimizer",     name |-> "Performance Optimizer", category |-> "perf"],
     [id |-> "docs-writer",        name |-> "Documentation Writer",  category |-> "docs"] >>

\* outcome of calling a template function: a value, or a thrown exception
Returned(v) == [ok |-> TRUE, val |-> v]
Thrown == [ok |-> FALSE, val |-> 0]

HasFramework(s, names) == Some(s.frameworks, LAMBDA f : f \in names)

\* template.shouldRecommend(scan): confidence 0-100, or a throw
shouldRecommend(id, s) ==
  CASE id = "code-reviewer" -> Returned(90)
    [] id = "test-writer" ->
         IF Len(s.testing) > 0 THEN Returned(88)
         ELSE IF Len(s.frameworks) > 0 THEN Returned(70)
         ELSE Returned(50)
    [] id = "db-expert" ->
         IF Len(s.database) > 0 THEN Returned(85)
         ELSE IF "Database migrations" \in Range(s.significantPaths) THEN Returned(80)
         ELSE Returned(0)
    [] id = "security-auditor" ->
         IF HasFramework(s, {"Express", "Fastify", "Hono", "Next.js", "Nuxt", "Remix", "Astro"})
         THEN Returned(78) ELSE Returned(45)
    [] id = "component-designer" ->
         LET hasFrontend == HasFramework(s, {"React", "Vue", "Svelte", "Angular", "Next.js",
                                             "Nuxt", "SvelteKit", "Remix", "Astro"})
             hasStyling == Len(s.styling) > 0
         IN IF hasFrontend /\ hasStyling THEN Returned(82)
            ELSE IF hasFrontend THEN Returned(68)
            ELSE Returned(0)
    [] id = "api-developer" ->
         IF HasFramework(s, {"Express", "Fastify", "Hono", "Next.js", "Nuxt", "Remix"})
         THEN Returned(80) ELSE Returned(0)
    [] id = "devops-helper" ->
         IF Undefined(s, "deployment") THEN Thrown
         ELSE IF Len(s.deployment) > 0 THEN Returned(72) ELSE Returned(0)
    [] id = "perf-optimizer" ->
         IF HasFramework(s, {"React", "Next.js", "Vue", "Nuxt", "Svelte", "SvelteKit"})
            /\ s.totalFiles > 50
         THEN Returned(65) ELSE Returned(0)
    [] id = "docs-writer" ->
         IF s.totalFiles > 30 THEN Returned(55) ELSE Returned(30)

ToStr(n) ==
  CASE n = 20 -> "20" [] n = 21 -> "21" [] n = 31 -> "31" [] n = 51 -> "51"

\* template.generate(scan): the details record, or a throw
generate(id, s) ==
  CASE id = "code-reviewer" ->
         IF Undefined(s, "languages") THEN Thrown
         ELSE
         LET langs == Join(Map(s.languages, LAMBDA l : l.name), ", ")
             frameworks == Join(s.frameworks, ", ")
         IN Returned(
            [description |-> "Review code for " \o langs \o " best practices"
                 \o (IF frameworks # "" THEN ", " \o frameworks \o " patterns" ELSE "")
                 \o ", and common bugs. Focus on readability, maintainability, and type safety.",
             reason |-> "Core languages: " \o langs \o ". Code review catches bugs before they ship.",
             triggers |-> <<"review", "check code", "PR review", "code quality", "refactor">>,
             capabilities |-> <<"Identify anti-patterns and code smells",
                                "Suggest performance improvements",
                                "Check type safety and error handling",
                                "Enforce consistent coding style">>,
             relevantFiles |-> FlatMap(s.languages,
                                 LAMBDA l : Map(l.extensions, LAMBDA e : "**/*" \o e))])
    [] id = "test-writer" ->
         LET testTools == s.testing
             testFramework == IF Len(testTools) > 0 THEN Join(testTools, " + ")
                              ELSE "your testing framework"
         IN Returned(
            [description |-> "Write and update tests using " \o testFramework
                 \o ". Generate unit tests, integration tests, and test fixtures following existing test patterns.",
             reason |-> "Testing tools detected: "
                 \o StrOr(Join(testTools, ", "), "none (recommendation for quality)"),
             triggers |-> <<"write test", "add tests", "test coverage", "unit test",
                            "integration test", "fix test">>,
             capabilities |-> <<"Generate " \o Join(testTools, "/") \o " test files",
                                "Create test fixtures and mocks",
                                "Improve test coverage for uncovered code",
                                "Fix failing tests">>,
             relevantFiles |-> <<"**/*.test.*", "**/*.spec.*", "**/__tests__/**", "**/tests/**">>])
    [] id = "db-expert" ->
         LET dbs == s.database
         IN Returned(
            [description |-> "Manage database schema, migrations, and queries using "
                 \o Join(dbs, ", ")
                 \o ". Optimize queries, handle migrations safely, and maintain data integrity.",
             reason |-> "Database tools detected: " \o Join(dbs, ", "),
             triggers |-> <<"migration", "schema", "query", "database", "db", "seed", "index">>,
             capabilities |-> <<"Create and modify " \o Join(dbs, "/") \o " schemas",
                                "Generate safe migrations",
                                "Optimize slow queries",
                                "Create seed data and fixtures">>,
             relevantFiles |-> <<"**/prisma/**", "**/drizzle/**", "**/migrations/**",
                                 "**/seeds/**", "**/*.sql">>])
    [] id = "security-auditor" ->
         LET frameworks == s.frameworks
         IN Returned(
            [description |-> "Audit code for security vulnerabilities specific to "
                 \o Join(frameworks, ", ")
                 \o ". Check for XSS, CSRF, injection attacks, auth bypass, insecure dependencies, and exposed secrets.",
             reason |-> "Web framework detected: " \o Join(frameworks, ", ")
                 \o ". Security review is critical.",
             triggers |-> <<"security", "vulnerability", "XSS", "CSRF", "injection", "auth",
                            "CVE", "secrets">>,
             capabilities |-> <<"Scan for OWASP Top 10 vulnerabilities",
                                "Check authentication and authorization flows",
                                "Detect hardcoded secrets and API keys",
                                "Review dependency security advisories">>,
             relevantFiles |-> <<"**/*.ts", "**/*.js", "**/.env*", "**/auth/**", "**/api/**">>])
    [] id = "component-designer" ->
         LET framework == Find(s.frameworks,
                               LAMBDA f : f \in {"React", "Vue", "Svelte", "Angular"})
             styling == s.styling
         IN Returned(
            [description |-> "Design and build " \o NameOr(framework, "UI")
                 \o " components using " \o StrOr(Join(styling, " + "), "CSS")
                 \o ". Create accessible, responsive, and reusable components following project conventions.",
             reason |-> "Frontend: " \o NameOr(framework, "detected") \o ", Styling: "
                 \o StrOr(Join(styling, ", "), "detected"),
             triggers |-> <<"component", "UI", "design", "layout", "responsive",
                            "accessible", "style">>,
             capabilities |-> <<"Build " \o NameOr(framework, "UI") \o " components",
                                "Style with " \o StrOr(Join(styling, "/"), "CSS"),
                                "Ensure WCAG accessibility compliance",
                                "Create responsive layouts">>,
             relevantFiles |-> <<"**/*.tsx", "**/*.jsx", "**/*.vue", "**/*.svelte", "**/*.css">>])
    [] id = "api-developer" ->
         LET backend == Find(s.frameworks,
                             LAMBDA f : f \in {"Express", "Fastify", "Hono", "Next.js"})
         IN Returned(
            [description |-> "Build and maintain API endpoints using "
                 \o NameOr(backend, "your framework")
                 \o ". Design RESTful or GraphQL APIs with proper validation, error handling, and documentation.",
             reason |-> "Backend framework: " \o NameOr(backend, "detected"),
             triggers |-> <<"API", "endpoint", "route", "handler", "REST", "GraphQL", "middleware">>,
             capabilities |-> <<"Design API endpoints with proper HTTP methods",
                                "Implement request validation and error handling",
                                "Generate API documentation",
                                "Create middleware and guards">>,
             relevantFiles |-> <<"**/api/**", "**/routes/**", "**/handlers/**", "**/middleware/**">>])
    [] id = "devops-helper" ->
         IF Undefined(s, "deployment") THEN Thrown
         ELSE
         LET tools == s.deployment
         IN Returned(
            [description |-> "Manage CI/CD pipelines, Docker configurations, and deployment using "
                 \o Join(tools, ", ")
                 \o ". Optimize build times, configure environments, and handle infrastructure as code.",
             reason |-> "Deployment tools: " \o Join(tools, ", "),
             triggers |-> <<"deploy", "CI/CD", "pipeline", "Docker", "build", "release",
                            "environment">>,
             capabilities |-> <<"Configure " \o Join(tools, "/") \o " pipelines",
                                "Optimize Docker builds",
                                "Manage environment variables",
                                "Set up deployment workflows">>,
             relevantFiles |-> <<".github/workflows/**", "**/Dockerfile*", "**/docker-compose*",
                                 "**/terraform/**", "**/*.yaml">>])
    [] id = "perf-optimizer" ->
         LET framework == Slice0(s.frameworks, 1)
         IN Returned(
            [description |-> "Optimize performance for " \o NameOr(framework, "your app")
                 \o ". Analyze bundle size, identify render bottlenecks, optimize images, and improve Core Web Vitals.",
             reason |-> NameOr(framework, "Frontend") \o " app with " \o ToStr(s.totalFiles)
                 \o " files - performance matters at scale.",
             triggers |-> <<"performance", "slow", "optimize", "bundle", "lazy load", "cache",
                            "Core Web Vitals">>,
             capabilities |-> <<"Identify and fix render bottlenecks",
                                "Optimize bundle size and code splitting",
                                "Improve Core Web Vitals scores",
                                "Set up caching strategies">>,
             relevantFiles |-> <<"**/*.tsx", "**/*.jsx", "**/next.config.*", "**/vite.config.*">>])
    [] id = "docs-writer" ->
         Returned(
            [description |-> "Write and maintain project documentation including README, API docs, guides, and inline code comments. Follow the project's existing documentation style.",
             reason |-> "Project has " \o ToStr(s.totalFiles)
                 \o " files - documentation helps onboarding.",
             triggers |-> <<"document", "README", "docs", "comment", "explain", "guide", "API docs">>,
             capabilities |-> <<"Generate comprehensive README files",
                                "Write API documentation",
                                "Add JSDoc/TSDoc comments to code",
                                "Create onboarding guides">>,
             relevantFiles |-> <<"**/*.md", "**/docs/**", "README*">>])


(***************************************************************************)
(* Rule templates (RULE_TEMPLATES), in catalog declaration order.  In the  *)
(* texts a backquote is written ' and an em dash -, one character each, so *)
(* every length in characters is that of the source text.                  *)
(***************************************************************************)
RULE_TEMPLATES ==
  << [id |-> "typescript-strict",   title |-> "TypeScript Strict Mode Conventions",
      category |-> "language",      priority |-> "high"],
     [id |-> "react-patterns",      title |-> "React Component Patterns",
      category |-> "framework",     priority |-> "high"],
     [id |-> "testing-conventions", title |-> "Testing Conventions",
      category |-> "testing",       priority |-> "high"],
     [id |-> "git-conventions",     title |-> "Git & PR Conventions",
      category |-> "workflow",      priority |-> "medium"],
     [id |-> "error-handling",      title |-> "Error Handling Patterns",
      category |-> "quality",       priority |-> "medium"],
     [id |-> "prisma-conventions",  title |-> "Prisma Workflow",
      category |-> "database",      priority |-> "high"],
     [id |-> "tailwind-conventions", title |-> "Tailwind CSS Patterns",
      category |-> "styling",       priority |-> "medium"],
     [id |-> "project-structure",   title |-> "Project Structure",
      category |-> "architecture",  priority |-> "medium"] >>

\* RuleTemplate.shouldRecommend(scan): a boolean, or a throw
ruleShouldRecommend(id, s) ==
  CASE id = "typescript-strict" ->
         IF Undefined(s, "languages") THEN Thrown
         ELSE Returned(Some(s.languages, LAMBDA l : l.name = "TypeScript"))
    [] id = "react-patterns" -> Returned(HasFramework(s, {"React", "Next.js"}))
    [] id = "testing-conventions" -> Returned(Len(s.testing) > 0)
    [] id = "git-conventions" -> Returned(TRUE)
    [] id = "error-handling" ->
         Returned(HasFramework(s, {"Express", "Fastify", "Hono", "Next.js", "Nuxt", "Remix"}))
    [] id = "prisma-conventions" -> Returned(Some(s.database, LAMBDA d : d = "Prisma"))
    [] id = "tailwind-conventions" -> Returned(Some(s.styling, LAMBDA x : x = "Tailwind CSS"))
    [] id = "project-structure" -> Returned(s.totalFiles > 20)

\* RuleTemplate.generate(scan): {content, appliesTo}
ruleGenerate(id, s) ==
  CASE id = "typescript-strict" ->
         [content |-> Join(
            <<"## TypeScript Conventions",
            "- Use strict TypeScript ('strict: true' in tsconfig)",
            "- Prefer 'interface' over 'type' for object shapes that may be extended",
            "- Use 'unknown' instead of 'any' - narrow types with type guards",
            "- Always define return types for exported functions",
            "- Use 'readonly' for properties that shouldn't be mutated",
            "- Prefer 'const' assertions for literal types",
            "- Use discriminated unions for state management",
            "- Never use '@ts-ignore' - use '@ts-expect-error' with explanation">>, "\n"),
          appliesTo |-> <<"**/*.ts", "**/*.tsx">>]
    [] id = "react-patterns" ->
         LET hasNextjs == HasFramework(s, {"Next.js"})
             base ==
               <<"## React Component Patterns",
               "- Use functional components with hooks (no class components)",
               "- Extract custom hooks for reusable stateful logic",
               "- Co-locate component, tests, and styles in the same directory",
               "- Use 'React.memo()' only when profiling shows re-render issues",
               "- Prefer composition over prop drilling - use context sparingly",
               "- Name event handlers as 'handleAction' (e.g., 'handleSubmit', 'handleClick')",
               "- Keep components under 200 lines - extract sub-components if larger">>
             lns == IF hasNextjs
                    THEN base \o
               <<"- Use Server Components by default, add 'use client' only when needed",
               "- Prefer server actions for mutations",
               "- Use Next.js Image component for all images",
               "- Implement loading.tsx and error.tsx for each route segment">>
                    ELSE base
         IN [content |-> Join(lns, "\n"), appliesTo |-> <<"**/*.tsx", "**/*.jsx">>]
    [] id = "testing-conventions" ->
         LET testFramework == NameOr(Slice0(s.testing, 1), "test framework")
         IN [content |-> Join(
               <<"## Testing Conventions",
                 "- Write tests using " \o testFramework>> \o
               <<"- Follow AAA pattern: Arrange, Act, Assert",
               "- Name test files as '*.test.ts' (unit) or '*.spec.ts' (integration)",
               "- Each test should test ONE behavior - keep tests focused",
               "- Use descriptive test names: 'it('should reject invalid email format')'",
               "- Mock external services, never hit real APIs in tests",
               "- Aim for >80% coverage on business logic, don't test implementation details",
               "- Create shared test fixtures in 'tests/fixtures/' directory">>, "\n"),
             appliesTo |-> <<"**/*.test.*", "**/*.spec.*", "**/__tests__/**">>]
    [] id = "git-conventions" ->
         [content |-> Join(
            <<"## Git Conventions",
            "- Use conventional commits: 'feat:', 'fix:', 'chore:', 'docs:', 'refactor:', 'test:'",
            "- Keep commits atomic - one logical change per commit",
            "- Write meaningful commit messages that explain WHY, not just WHAT",
            "- Create feature branches from 'main' - never commit directly to 'main'",
            "- Keep PRs focused and under 400 lines when possible">>, "\n"),
          appliesTo |-> <<"**/*">>]
    [] id = "error-handling" ->
         [content |-> Join(
            <<"## Error Handling",
            "- Use typed error classes for different error categories",
            "- Always handle promise rejections - no unhandled promises",
            "- Return meaningful error messages to API consumers",
            "- Log errors with context (request ID, user ID, stack trace)",
            "- Never expose internal errors to users - map to safe error responses",
            "- Use try/catch at API boundaries, not around every function">>, "\n"),
          appliesTo |-> <<"**/*.ts", "**/*.js">>]
    [] id = "prisma-conventions" ->
         [content |-> Join(
            <<"## Prisma Conventions",
            "- Run 'npx prisma generate' after any schema change",
            "- Use 'npx prisma migrate dev' for development migrations",
            "- Never edit migration files after they've been applied",
            "- Use '@map' and '@@map' to keep DB column names snake_case",
            "- Define indexes for frequently queried fields",
            "- Use Prisma Client extensions for reusable query logic",
            "- Always use transactions for multi-step mutations">>, "\n"),
          appliesTo |-> <<"**/prisma/**", "**/*.prisma">>]
    [] id = "tailwind-conventions" ->
         LET hasShadcn == Some(s.styling, LAMBDA x : x = "shadcn/ui")
             base ==
               <<"## Tailwind CSS Conventions",
               "- Use Tailwind utility classes - avoid custom CSS unless absolutely necessary",
               "- Extract repeated class combinations into components, not @apply",
               "- Use 'cn()' utility for conditional class merging",
               "- Follow mobile-first responsive design (sm:, md:, lg:)",
               "- Use design tokens via tailwind.config for colors and spacing">>
             lns == IF hasShadcn
                    THEN base \o
               <<"- Use shadcn/ui components as the base - customize via variants",
               "- Follow shadcn/ui patterns for new components",
               "- Install new shadcn components with 'npx shadcn-ui add <component>'">>
                    ELSE base
         IN [content |-> Join(lns, "\n"), appliesTo |-> <<"**/*.tsx", "**/*.jsx", "**/*.css">>]
    [] id = "project-structure" ->
         LET dirs == Filter(s.topLevelDirs,
                            LAMBDA d : d \notin {"node_modules", ".git", "dist", "build", ".next"})
             all ==
               <<"## Project Structure",
                 "Top-level directories: " \o Join(dirs, ", "),
                 "">> \o
               <<"- Keep related files together (co-location over separation by type)",
               "- Use barrel exports (index.ts) for clean imports",
               "- Shared utilities go in 'src/lib/' or 'src/utils/'",
               "- Business logic goes in 'src/services/' or domain directories">> \o
               <<"- This is a " \o (IF s.hasMonorepo THEN "monorepo" ELSE "single-package")
                    \o " project",
                 IF s.hasMonorepo
                 THEN "- Monorepo packages: " \o StrOr(Join(s.monorepoPackages, ", "), "detected")
                 ELSE "">>
         IN [content |-> Join(Filter(all, LAMBDA l : l # ""), "\n"),
             appliesTo |-> <<"**/*">>]


(***************************************************************************)
(* Recommendation engine                                                   *)
(***************************************************************************)
ConfidenceThreshold == 40

\* the loop's `if (confidence < 40) continue`, read as "the template is kept"
KeepsTemplateAbove50(confidence) == ~(confidence < 50)
KeepsTemplate(confidence) == ~(confidence < ConfidenceThreshold)

\* `const recommendations: AgentRecommendation[] = []`: a fresh array per call
LeftoverRecommendations == IF agentsOut.thrown THEN <<>> ELSE agentsOut.agents
NewRecommendations == <<>>

\* Array.prototype.sort((a, b) => b.confidence - a.confidence): stable, so an
\* element is placed behind every element that does not compare after it
InsertBeforeEqual(sorted, x) ==
  LET n == Cardinality({i \in 1..Len(sorted) : sorted[i].confidence > x.confidence})
  IN SubSeq(sorted, 1, n) \o <<x>> \o SubSeq(sorted, n + 1, Len(sorted))
InsertSorted(sorted, x) ==
  LET n == Cardinality({i \in 1..Len(sorted) : sorted[i].confidence >= x.confidence})
  IN SubSeq(sorted, 1, n) \o <<x>> \o SubSeq(sorted, n + 1, Len(sorted))

SortByConfidence(xs) ==
  LET f[i \in 0..Len(xs)] == IF i = 0 THEN <<>> ELSE InsertSorted(f[i - 1], xs[i])
  IN f[Len(xs)]

\* the object pushed for one template
AgentRecommendation(t, confidence, details) ==
  [id |-> t.id,
   name |-> t.name,
   confidence |-> confidence,
   category |-> t.category,
   estimatedTokens |-> estimateTokens(details.description \o Join(details.capabilities, " ")),
   description |-> details.description,
   reason |-> details.reason,
   triggers |-> details.triggers,
   capabilities |-> details.capabilities,
   relevantFiles |-> details.relevantFiles]

ThrownAgents == [thrown |-> TRUE, agents |-> <<>>]

\* recommendAgents(scan): the sorted list, or the exception a template threw
recommendAgents(s) ==
  LET loop[i \in 0..Len(AGENT_TEMPLATES)] ==
        IF i = 0 THEN [thrown |-> FALSE, agents |-> NewRecommendations]
        ELSE LET acc == loop[i - 1]
                 t == AGENT_TEMPLATES[i]
                 confidence == shouldRecommend(t.id, s)
             IN IF acc.thrown THEN acc
                ELSE IF ~confidence.ok THEN ThrownAgents
                ELSE IF ~KeepsTemplate(confidence.val) THEN acc
                ELSE LET details == generate(t.id, s)
                     IN IF ~details.ok THEN ThrownAgents
                        ELSE [thrown |-> FALSE,
                              agents |-> Append(acc.agents,
                                 AgentRecommendation(t, confidence.val, details.val))]
      res == loop[Len(AGENT_TEMPLATES)]
  IN IF res.thrown THEN ThrownAgents
     ELSE [thrown |-> FALSE, agents |-> SortByConfidence(res.agents)]

ThrownRules == [thrown |-> TRUE, rules |-> <<>>]

\* recommendRules(scan): the list in catalog order, or the exception thrown
recommendRules(s) ==
  LET loop[i \in 0..Len(RULE_TEMPLATES)] ==
        IF i = 0 THEN [thrown |-> FALSE, rules |-> <<>>]
        ELSE LET acc == loop[i - 1]
                 t == RULE_TEMPLATES[i]
                 applies == ruleShouldRecommend(t.id, s)
             IN IF acc.thrown THEN acc
                ELSE IF ~applies.ok THEN ThrownRules
                ELSE IF ~applies.val THEN acc
                ELSE LET g == ruleGenerate(t.id, s)
                     IN [thrown |-> FALSE,
                         rules |-> Append(acc.rules,
                            [id |-> t.id,
                             title |-> t.title,
                             content |-> g.content,
                             priority |-> t.priority,
                             reason |-> "Detected: " \o t.category,
                             appliesTo |-> g.appliesTo,
                             category |-> t.category])]
  IN loop[Len(RULE_TEMPLATES)]

NotRun == [thrown |-> FALSE, agents |-> <<>>]
NoRules == [thrown |-> FALSE, rules |-> <<>>]

\* no adapter has been asked for anything
NoOutput == [tool |-> "none", files |-> <<>>, totalSize |-> 0, sizeUnit |-> "chars", warnings |-> <<>>]
AdaptersIdle ==
  /\ adTool = "none"
  /\ adScan = "none"
  /\ adRec = [agents |-> <<>>, rules |-> <<>>]
  /\ assembled = <<>>
  /\ adOut = NoOutput
  /\ adPrev = NoOutput
  /\ adPc = "idle"

\* nothing has been validated
NoResult == [configsFound |-> 0, configsValid |-> 0, issues |-> <<>>, warnings |-> <<>>]
ValidatorIdle ==
  /\ project = {}
  /\ configs = <<>>
  /\ formatIssues = <<>>
  /\ result = NoResult
  /\ valPc = "idle"
  /\ globbed = {}
  /\ globRejects = FALSE

\* nothing has been pruned
NoPruneResult == [configsScanned |-> 0, pruneTargets |-> <<>>]
PrunerIdle ==
  /\ pruneResult = NoPruneResult
  /\ prPc = "idle"

\* nothing has been analyzed
NoFixResult == [agents |-> <<>>, issues |-> <<>>]
FixerIdle ==
  /\ fixResult = NoFixResult
  /\ fixPc = "idle"

\* no command is running
NoOptions == [target |-> "none", force |-> FALSE, dryRun |-> FALSE]
NoRecommendations == [agents |-> <<>>, rules |-> <<>>]
CommandsIdle ==
  /\ cmdScan = "none"
  /\ offered = NoRecommendations
  /\ recommendations = NoRecommendations
  /\ options = NoOptions
  /\ cmdTargets = <<>>
  /\ confirmAction = "none"
  /\ outputs = <<>>
  /\ pos = <<0, 0>>
  /\ disk = <<>>
  /\ fsLog = <<>>
  /\ cmdPc = "idle"

\* the engine has not been given a snapshot
RecommenderIdle ==
  /\ scan = "none"
  /\ pc = "idle"
  /\ run = 0
  /\ agentsOut = NotRun
  /\ rulesOut = NoRules
  /\ prevAgentsOut = NotRun
  /\ prevRulesOut = NoRules

\* a snapshot arrives; nothing has been recommended yet
InitRecommender ==
  /\ scan \in {s \in Snapshots : WellShaped(s)}
  /\ pc = "agents"
  /\ run = 1
  /\ agentsOut = NotRun
  /\ rulesOut = NoRules
  /\ prevAgentsOut = NotRun
  /\ prevRulesOut = NoRules
  /\ AdaptersIdle
  /\ ValidatorIdle
  /\ PrunerIdle
  /\ FixerIdle
  /\ CommandsIdle

\* runRecommendations, first half: const agents = recommendAgents(scan)
RunRecommendAgents ==
  /\ pc = "agents"
  /\ agentsOut' = recommendAgents(scan)
  /\ pc' = IF agentsOut'.thrown THEN "failed" ELSE "rules"
  /\ UNCHANGED <<scan, run, rulesOut, prevAgentsOut, prevRulesOut, nonRecVars>>

\* runRecommendations, second half: const rules = recommendRules(scan)
RunRecommendRules ==
  /\ pc = "rules"
  /\ rulesOut' = recommendRules(scan)
  /\ pc' = IF rulesOut'.thrown THEN "failed" ELSE "done"
  /\ UNCHANGED <<scan, run, agentsOut, prevAgentsOut, prevRulesOut, nonRecVars>>

\* the caller runs the engine again on the snapshot it still holds
RunAgain ==
  /\ pc \in {"done", "failed"}
  /\ run < MaxRuns
  /\ run' = run + 1
  /\ pc' = "agents"
  /\ prevAgentsOut' = agentsOut
  /\ prevRulesOut' = rulesOut
  /\ UNCHANGED <<scan, agentsOut, rulesOut, nonRecVars>>

NextRecommender == RunRecommendAgents \/ RunRecommendRules \/ RunAgain

SpecRecommender == InitRecommender /\ [][NextRecommender]_vars


(***************************************************************************)
(* Claims about the recommendation engine                                  *)
(***************************************************************************)
AgentIds(out) == {out.agents[i].id : i \in 1..Len(out.agents)}
TemplateIds == {AGENT_TEMPLATES[i].id : i \in 1..Len(AGENT_TEMPLATES)}
CatalogIndex(id) == CHOOSE i \in 1..Len(AGENT_TEMPLATES) : AGENT_TEMPLATES[i].id = id

\* recommendAgents has returned (not thrown) in the current run
AgentsReturned == pc \in {"rules", "done"}

\* C1: whenever recommendAgents returns, a catalog template is in the returned
\* list if and only if its shouldRecommend score on the snapshot is >= 40; so
\* every returned confidence is >= 40 (and is that score) and no template
\* scoring below 40 is returned.
C1_InclusionThreshold ==
  AgentsReturned =>
    /\ \A id \in TemplateIds :
         id \in AgentIds(agentsOut) <=> shouldRecommend(id, scan).val >= 40
    /\ \A i \in 1..Len(agentsOut.agents) :
         /\ agentsOut.agents[i].confidence >= 40
         /\ agentsOut.agents[i].confidence = shouldRecommend(agentsOut.agents[i].id, scan).val

\* a run in which a template scoring 45 is returned and one scoring 30 is not
C1_Witness ==
  /\ AgentsReturned
  /\ shouldRecommend("security-auditor", scan).val = 45
  /\ "security-auditor" \in AgentIds(agentsOut)
  /\ shouldRecommend("docs-writer", scan).val = 30
  /\ "docs-writer" \notin AgentIds(agentsOut)

\* C2: the returned list is ordered by descending confidence, and two agents
\* of equal confidence appear in catalog declaration order.
C2_SortedStable ==
  AgentsReturned =>
    \A i, j \in 1..Len(agentsOut.agents) :
      i < j =>
        /\ agentsOut.agents[i].confidence >= agentsOut.agents[j].confidence
        /\ (agentsOut.agents[i].confidence = agentsOut.agents[j].confidence
              => CatalogIndex(agentsOut.agents[i].id) < CatalogIndex(agentsOut.agents[j].id))

\* db-expert (migrations directory, no database tool) and api-developer both
\* score 80 and are both returned, db-expert first
C2_Witness ==
  /\ AgentsReturned
  /\ \E i, j \in 1..Len(agentsOut.agents) :
       /\ i < j
       /\ agentsOut.agents[i].id = "db-expert"
       /\ agentsOut.agents[j].id = "api-developer"
       /\ agentsOut.agents[i].confidence = 80
       /\ agentsOut.agents[j].confidence = 80

\* the templates whose scoring or generation function throws on snapshot s
RaisingTemplates(s) ==
  {id \in TemplateIds :
     \/ ~shouldRecommend(id, s).ok
     \/ (shouldRecommend(id, s).val >= 40 /\ ~generate(id, s).ok)}

\* C3: if a single template's scoring or generation function raises,
\* recommendAgents still returns the recommendations of all the other
\* templates (the failing one counts as not recommended) and does not
\* propagate the failure.
C3_IsolatedTemplateFailure ==
  (pc \in {"rules", "done", "failed"} /\ Cardinality(RaisingTemplates(scan)) = 1) =>
    /\ ~agentsOut.thrown
    /\ AgentIds(agentsOut) =
         {id \in TemplateIds \ RaisingTemplates(scan) : shouldRecommend(id, scan).val >= 40}

Body(src, n, w) == <<[src |-> src, from |-> 0, len |-> n, w |-> w]>>

\* the snapshots handed to the adapters
AdapterScans ==
  {s \in Snapshots :
     /\ s.missing = {} /\ s.totalFiles = 51 /\ s.testing = <<"Vitest">>
     /\ s.database = <<>> /\ s.deployment = <<>> /\ s.styling = <<>>
     /\ s.significantPaths = <<>> /\ s.frameworks \in {<<>>, <<"React">>}}

\* RuleRecommendation records.  The content lengths sit around the limits:
\* with the header "# shop", "Stack: TypeScript" the Windsurf rules file of
\* typescript-strict alone has exactly 6000 characters, that of
\* react-patterns alone 6001; testing-conventions alone is past 30000.
RulePool ==
  << [id |-> "git-conventions", title |-> "Git Conventions",
      content |-> Body("rule:git-conventions", 400, 1),
      priority |-> "medium", appliesTo |-> <<"**/*">>],
     [id |-> "typescript-strict", title |-> "TypeScript Standards",
      content |-> Body("rule:typescript-strict", 5972, 1),
      priority |-> "high", appliesTo |-> <<"**/*.ts", "**/*.tsx">>],
     [id |-> "react-patterns", title |-> "React Patterns",
      content |-> Body("rule:react-patterns", 5973, 3),
      priority |-> "high", appliesTo |-> <<"**/*.tsx", "**/*.jsx">>],
     [id |-> "testing-conventions", title |-> "Testing Conventions",
      content |-> Body("rule:testing-conventions", 30100, 1),
      priority |-> "high", appliesTo |-> <<"**/*.test.*", "**/*.spec.*">>] >>

\* lists of distinct rules, at most MaxRules long
RuleLists ==
  UNION {{[i \in 1..n |-> RulePool[f[i]]] :
            f \in {g \in [1..n -> 1..Len(RulePool)] : \A i, j \in 1..n : g[i] = g[j] => i = j}}
         : n \in 0..MaxRules}

\* AgentRecommendation records, one per catalog template
AgentPool ==
  [i \in 1..Len(AGENT_TEMPLATES) |->
     [id |-> AGENT_TEMPLATES[i].id,
      name |-> AGENT_TEMPLATES[i].name,
      description |-> Body("description:" \o AGENT_TEMPLATES[i].id, 90 + 20 * i, 1),
      capabilities |-> <<"Review changes", "Explain findings">>,
      triggers |-> <<"review", AGENT_TEMPLATES[i].id>>,
      relevantFiles |-> IF i % 2 = 0 THEN <<>> ELSE <<"src/**/*">>]]

\* the first n agents of the pool, n up to MaxAgents
AgentLists ==
  {SubSeq(AgentPool, 1, n) :
     n \in 0..(IF MaxAgents < Len(AgentPool) THEN MaxAgents ELSE Len(AgentPool))}

ToolTargets == {"claude", "cursor", "codex", "copilot", "windsurf", "gemini", "amp"}

\* techs: framework names, then the names of the first n languages
Techs(s, n) == s.frameworks \o [i \in 1..Len(Slice0(s.languages, n)) |-> s.languages[i].name]

HighPriority(rules) == Filter(rules, LAMBDA r : r.priority = "high")

\* for (const rule of rules) { lines.push(rule.content); lines.push(""); }
RuleLines(rules) == FlatMap(rules, LAMBDA r : <<r.content, <<>>>>)

\* lines.join("\n") wrapped into a GeneratedFile
GeneratedFile(path, lines, description) ==
  LET content == JoinLines(lines)
  IN [path |-> path, content |-> content, description |-> description,
      sizeBytes |-> ByteLength(content)]

AdapterOutput(tool, files, totalSize, sizeUnit, warnings) ==
  [tool |-> tool, files |-> files, totalSize |-> totalSize,
   sizeUnit |-> sizeUnit, warnings |-> warnings]


(***************************************************************************)
(* WindsurfAdapter                                                         *)
(***************************************************************************)
WINDSURF_CHAR_LIMIT == 6000

TruncationMarker == "\n\n<!-- Truncated by dotti to fit 6k char limit -->"

\* a warning: its text and the size it quotes (0 when it quotes none)
Warning(msg, size) == [msg |-> msg, size |-> size]

generateWindsurfRules(s, rec) ==
  GeneratedFile(".windsurfrules",
    << Lit("# " \o s.projectName), <<>>,
       Lit("Stack: " \o Join(Techs(s, 2), ", ")), <<>> >>
    \o RuleLines(HighPriority(rec.rules))
    \o (IF Len(rec.agents) > 0
        THEN <<Lit("## Roles")>>
             \o Map(Slice0(rec.agents, 5),
                    LAMBDA a : Lit("- **" \o a.name \o "**: ") \o TSlice0(a.description, 120))
        ELSE <<>>),
    "Project rules for Windsurf (Cascade)")

\* rulesFile.content.length >= WINDSURF_CHAR_LIMIT
AtLeastWindsurfLimit(n) == n >= WINDSURF_CHAR_LIMIT
\* rulesFile.content.length > WINDSURF_CHAR_LIMIT
ExceedsWindsurfLimit(n) == n > WINDSURF_CHAR_LIMIT

\* content.slice(0, WINDSURF_CHAR_LIMIT) + marker
TruncateAtLimit(content) == TSlice0(content, WINDSURF_CHAR_LIMIT) \o Lit(TruncationMarker)
\* content.slice(0, WINDSURF_CHAR_LIMIT - 50) + marker
Truncate(content) == TSlice0(content, WINDSURF_CHAR_LIMIT - 50) \o Lit(TruncationMarker)

\* the size step of generate: the file and the warnings it leaves
EnforceWindsurfLimit(rulesFile) ==
  IF ExceedsWindsurfLimit(TLen(rulesFile.content))
  THEN LET truncated == Truncate(rulesFile.content)
       IN [file |-> [rulesFile EXCEPT !.content = truncated,
                                      !.sizeBytes = ByteLength(truncated)],
           warnings |-> <<Warning("Content exceeds Windsurf's char limit. Truncating to fit. Consider using fewer rules.",
                                  TLen(rulesFile.content))>>]
  ELSE [file |-> rulesFile, warnings |-> <<>>]

WindsurfOutput(rulesFile) ==
  LET enforced == EnforceWindsurfLimit(rulesFile)
  IN AdapterOutput("windsurf", <<enforced.file>>, TLen(enforced.file.content),
                   "chars", enforced.warnings)

(***************************************************************************)
(* CopilotAdapter                                                          *)
(***************************************************************************)
CopilotMainInstructions(s, rec) ==
  GeneratedFile(".github/copilot-instructions.md",
    << Lit("# Copilot Instructions - " \o s.projectName), <<>>,
       Lit("This project uses: " \o Join(Techs(s, 3), ", ")), <<>> >>
    \o RuleLines(HighPriority(rec.rules)),
    "Repo-wide instructions for GitHub Copilot")

CopilotInstructionFile(rule) ==
  GeneratedFile(".github/instructions/" \o rule.id \o ".instructions.md",
    << Lit("---"), Lit("applyTo: \"" \o Join(rule.appliesTo, ", ") \o "\""),
       Lit("---"), <<>>, rule.content >>,
    rule.title \o " instructions for Copilot")

CopilotAgentFile(agent) ==
  GeneratedFile(".github/agents/" \o agent.id \o ".agent.md",
    << Lit("---"), Lit("name: " \o agent.name),
       Lit("description: ") \o agent.description, Lit("---"), <<>>,
       Lit("# " \o agent.name), <<>>, agent.description, <<>>,
       Lit("## Capabilities") >>
    \o Map(agent.capabilities, LAMBDA cap : Lit("- " \o cap)),
    agent.name \o " agent for GitHub Copilot")

CopilotFiles(s, rec) ==
  <<CopilotMainInstructions(s, rec)>>
  \o Map(Filter(rec.rules, LAMBDA r : Len(r.appliesTo) > 0 /\ r.appliesTo[1] # "**/*"),
         CopilotInstructionFile)
  \o Map(Slice0(rec.agents, 5), CopilotAgentFile)

\* totalSize > 300000
ExceedsTenfoldCopilotLimit(totalSize) == totalSize > 300000
\* totalSize > 30000
ExceedsCopilotLimit(totalSize) == totalSize > 30000

CopilotOutput(files) ==
  LET totalSize == SumChars(files)
  IN AdapterOutput("copilot", files, totalSize, "chars",
       IF ExceedsCopilotLimit(totalSize)
       THEN <<Warning("Total instruction size exceeds Copilot 30k char limit per file.", 0)>>
       ELSE <<>>)


(***************************************************************************)
(* ClaudeAdapter, CursorAdapter, AmpAdapter                                *)
(***************************************************************************)
\* fileCount as `${lang.fileCount}`
CountStr(n) == CASE n = 12 -> "12" [] n = 40 -> "40"

generateClaudeMd(s, rec) ==
  GeneratedFile("CLAUDE.md",
    << Lit("# " \o s.projectName), <<>>, Lit("## Tech Stack") >>
    \o Map(Slice0(s.languages, 3),
           LAMBDA lang : Lit("- **" \o lang.name \o "** (" \o CountStr(lang.fileCount) \o " files)"))
    \o Map(s.frameworks, LAMBDA fw : Lit("- " \o fw))
    \o Map(s.testing, LAMBDA t : Lit("- " \o t \o " (unit testing)"))
    \o Map(s.database, LAMBDA db : Lit("- " \o db))
    \o Map(s.styling, LAMBDA st : Lit("- " \o st))
    \o << <<>> >>
    \o RuleLines(rec.rules)
    \o (IF s.hasMonorepo
        THEN << Lit("## Monorepo Structure"),
                Lit("This is a monorepo with packages: "
                    \o StrOr(Join(s.monorepoPackages, ", "), "multiple")),
                <<>> >>
        ELSE <<>>),
    "Project context and coding conventions for Claude Code")

ClaudeAgentFile(agent) ==
  GeneratedFile(".claude/agents/" \o agent.id \o ".md",
    << Lit("---"), Lit("name: " \o agent.name),
       Lit("description: ") \o agent.description, Lit("---"), <<>>,
       Lit("# " \o agent.name), <<>>, agent.description, <<>>,
       Lit("## Capabilities") >>
    \o Map(agent.capabilities, LAMBDA cap : Lit("- " \o cap))
    \o << <<>>, Lit("## When to activate"),
          Lit("Activate this agent when the user mentions: " \o Join(agent.triggers, ", ")),
          <<>> >>
    \o (IF Len(agent.relevantFiles) > 0
        THEN << Lit("## Relevant files"),
                Lit("Focus on: " \o Join(agent.relevantFiles, ", ")) >>
        ELSE <<>>),
    agent.name \o " agent for Claude Code")

ClaudeFiles(s, rec) == <<generateClaudeMd(s, rec)>> \o Map(rec.agents, ClaudeAgentFile)

\* a rule file that starts with the rule's content
MdcWithoutFrontmatter(rule) ==
  GeneratedFile(".cursor/rules/" \o rule.id \o ".mdc", <<rule.content>>,
                rule.title \o " rule for Cursor")

generateMdcFile(rule) ==
  GeneratedFile(".cursor/rules/" \o rule.id \o ".mdc",
    << Lit("---"), Lit("description: " \o rule.title),
       Lit("globs: " \o Join(rule.appliesTo, ", ")),
       Lit("alwaysApply: " \o (IF rule.priority = "high" THEN "true" ELSE "false")),
       Lit("---"), <<>>, rule.content >>,
    rule.title \o " rule for Cursor")

CursorAgentsMd(s, rec) ==
  GeneratedFile("AGENTS.md",
    << Lit("# " \o s.projectName \o " - Agent Instructions"), <<>> >>
    \o FlatMap(rec.agents,
               LAMBDA agent : << Lit("## " \o agent.name), agent.description, <<>>,
                                 Lit("**Triggers:** " \o Join(agent.triggers, ", ")), <<>> >>),
    "Agent instructions for Cursor")

CursorFiles(s, rec) ==
  Map(rec.rules, generateMdcFile)
  \o (IF Len(rec.agents) > 0 THEN <<CursorAgentsMd(s, rec)>> ELSE <<>>)

AmpAgentsMd(s, rec) ==
  GeneratedFile("AGENTS.md",
    << Lit("# " \o s.projectName), <<>>,
       Lit("Stack: " \o Join(Techs(s, 3), ", ")), <<>> >>
    \o RuleLines(rec.rules)
    \o (IF Len(rec.agents) > 0
        THEN <<Lit("## Agent Roles")>>
             \o FlatMap(rec.agents,
                        LAMBDA agent : << Lit("### " \o agent.name), agent.description, <<>> >>)
        ELSE <<>>),
    "Agent instructions for Amp")

\* name.toLowerCase() of the language names
LowerCase(name) == CASE name = "TypeScript" -> "typescript" [] name = "Python" -> "python"

\* JSON.stringify(settings, null, 2)
AmpSettings(s) ==
  GeneratedFile(".amp/settings.json",
    << Lit("{"),
       Lit("  \"$schema\": \"https://amp.dev/schemas/settings.json\","),
       Lit("  \"project\": {"),
       Lit("    \"name\": \"" \o s.projectName \o "\","),
       Lit("    \"languages\": [") >>
    \o [i \in 1..Len(Slice0(s.languages, 3)) |->
          Lit("      \"" \o LowerCase(s.languages[i].name) \o "\""
              \o (IF i < Len(Slice0(s.languages, 3)) THEN "," ELSE ""))]
    \o << Lit("    ]"), Lit("  }"), Lit("}") >>,
    "Amp project settings")

AmpFiles(s, rec) == <<AmpAgentsMd(s, rec), AmpSettings(s)>>

(***************************************************************************)
(* CodexAdapter and GeminiAdapter: their files are not part of the source  *)
(* tree at hand; modelled from the specification's contract table: one     *)
(* consolidated artifact holding all rule content and a compact agent      *)
(* summary; Codex counts bytes against 32768 and only warns, Gemini has    *)
(* no limit.                                                               *)
(***************************************************************************)
CODEX_BYTE_LIMIT == 32768

ConsolidatedFile(path, s, rec, description) ==
  GeneratedFile(path,
    << Lit("# " \o s.projectName), <<>> >>
    \o RuleLines(rec.rules)
    \o Map(rec.agents, LAMBDA agent : Lit("- **" \o agent.name \o "**: ") \o agent.description),
    description)

CodexFiles(s, rec) == <<ConsolidatedFile("AGENTS.md", s, rec, "Agent instructions for Codex")>>

CodexOutput(files) ==
  LET totalSize == SumBytes(files)
  IN AdapterOutput("codex", files, totalSize, "bytes",
       IF totalSize > CODEX_BYTE_LIMIT
       THEN <<Warning("AGENTS.md exceeds the 32KB limit; split content across a nested file.", totalSize)>>
       ELSE <<>>)

GeminiFiles(s, rec) == <<ConsolidatedFile("GEMINI.md", s, rec, "Project context for Gemini CLI")>>


(***************************************************************************)
(* generateConfigs: one adapter.generate(scan, recommendations) call       *)
(***************************************************************************)
InitAdapters ==
  /\ adTool \in ToolTargets
  /\ adScan \in AdapterScans
  /\ adRec \in [agents : AgentLists, rules : RuleLists]
  /\ assembled = <<>>
  /\ adOut = NoOutput
  /\ adPrev = NoOutput
  /\ adPc = "input"
  /\ RecommenderIdle
  /\ ValidatorIdle
  /\ PrunerIdle
  /\ FixerIdle
  /\ CommandsIdle

Generated(files, out) ==
  /\ assembled' = files
  /\ adOut' = out
  /\ adPc' = "generated"
  /\ UNCHANGED <<adTool, adScan, adRec, adPrev, nonAdVars>>

WindsurfGenerate ==
  /\ adPc = "input" /\ adTool = "windsurf"
  /\ LET rulesFile == generateWindsurfRules(adScan, adRec)
     IN Generated(<<rulesFile>>, WindsurfOutput(rulesFile))

CopilotGenerate ==
  /\ adPc = "input" /\ adTool = "copilot"
  /\ LET files == CopilotFiles(adScan, adRec)
     IN Generated(files, CopilotOutput(files))

ClaudeGenerate ==
  /\ adPc = "input" /\ adTool = "claude"
  /\ LET files == ClaudeFiles(adScan, adRec)
     IN Generated(files, AdapterOutput("claude", files, SumBytes(files), "tokens", <<>>))

CursorGenerate ==
  /\ adPc = "input" /\ adTool = "cursor"
  /\ LET files == CursorFiles(adScan, adRec)
     IN Generated(files, AdapterOutput("cursor", files, SumChars(files), "chars", <<>>))

AmpGenerate ==
  /\ adPc = "input" /\ adTool = "amp"
  /\ LET files == AmpFiles(adScan, adRec)
     IN Generated(files, AdapterOutput("amp", files, SumBytes(files), "tokens", <<>>))

CodexGenerate ==
  /\ adPc = "input" /\ adTool = "codex"
  /\ LET files == CodexFiles(adScan, adRec)
     IN Generated(files, CodexOutput(files))

GeminiGenerate ==
  /\ adPc = "input" /\ adTool = "gemini"
  /\ LET files == GeminiFiles(adScan, adRec)
     IN Generated(files, AdapterOutput("gemini", files, SumBytes(files), "tokens", <<>>))

\* the content Windsurf returned passes through the size step of generate
\* (part of WindsurfAdapter.generate) once more
WindsurfEnforceAgain ==
  /\ adPc = "generated" /\ adTool = "windsurf"
  /\ adPrev' = adOut
  /\ adOut' = WindsurfOutput(adOut.files[1])
  /\ adPc' = "reapplied"
  /\ UNCHANGED <<adTool, adScan, adRec, assembled, nonAdVars>>

NextAdapters ==
  \/ WindsurfGenerate \/ CopilotGenerate \/ ClaudeGenerate \/ CursorGenerate
  \/ AmpGenerate \/ CodexGenerate \/ GeminiGenerate \/ WindsurfEnforceAgain

SpecAdapters == InitAdapters /\ [][NextAdapters]_vars


(***************************************************************************)
(* Claims about the adapters' size enforcement                             *)
(***************************************************************************)
WindsurfReturned == adTool = "windsurf" /\ adPc = "generated"

\* C5: the .windsurfrules file WindsurfAdapter.generate returns never has
\* more than 6000 characters; when the assembled content has more, the file
\* holds its first 5950 characters followed by the truncation marker,
\* sizeBytes and totalSize are those of the truncated content, and exactly
\* one warning is emitted.
C5_WindsurfWithinLimit ==
  WindsurfReturned =>
    LET before == assembled[1].content
        file == adOut.files[1]
    IN /\ Len(adOut.files) = 1
       /\ file.path = ".windsurfrules"
       /\ TLen(file.content) <= 6000
       /\ TLen(before) > 6000 =>
            /\ file.content = TSlice0(before, 5950) \o Lit(TruncationMarker)
            /\ TLen(file.content) = 6000
            /\ file.sizeBytes = ByteLength(file.content)
            /\ adOut.totalSize = TLen(file.content)
            /\ Len(adOut.warnings) = 1

\* an over-long rules file with multi-byte characters has been truncated
C5_Witness ==
  /\ WindsurfReturned
  /\ TLen(assembled[1].content) > 6000
  /\ adOut.files[1].sizeBytes > 6000
  /\ adOut.files[1].sizeBytes < assembled[1].sizeBytes
  /\ Len(adOut.warnings) = 1

\* C6: assembled Windsurf content of at most 6000 characters is returned
\* unchanged and without a warning; and passing content the size step has
\* already truncated through that step again leaves the file and its sizes
\* as they were.
C6_FitsUnchangedIdempotent ==
  /\ (WindsurfReturned /\ TLen(assembled[1].content) <= 6000) =>
       /\ adOut.files = assembled
       /\ adOut.warnings = <<>>
  /\ (adPc = "reapplied" /\ Len(adPrev.warnings) > 0) =>
       /\ adOut.files = adPrev.files
       /\ adOut.totalSize = adPrev.totalSize

\* truncated content, exactly 6000 characters long, went through the size
\* step a second time
C6_Witness ==
  /\ adPc = "reapplied"
  /\ Len(adPrev.warnings) = 1
  /\ TLen(adPrev.files[1].content) = 6000
  /\ adPrev.files[1].content # assembled[1].content
  /\ adOut.files[1].content = adPrev.files[1].content

\* C7: every adapter but Windsurf returns its files exactly as assembled;
\* Copilot adds its one warning exactly when the total size exceeds 30000
\* characters, so a warning is present whenever one of its files exceeds
\* 30000 characters, and that file is returned whole.
C7_OthersLeaveContent ==
  (adPc = "generated" /\ adTool # "windsurf") =>
    /\ adOut.files = assembled
    /\ adTool = "copilot" =>
         /\ Len(adOut.warnings) = (IF SumChars(assembled) > 30000 THEN 1 ELSE 0)
         /\ (\E i \in 1..Len(assembled) : TLen(assembled[i].content) > 30000)
              => (Len(adOut.warnings) > 0 /\ adOut.totalSize > 30000)

\* Copilot returned a file of more than 30000 characters, with a warning
C7_Witness ==
  /\ adPc = "generated" /\ adTool = "copilot"
  /\ \E i \in 1..Len(adOut.files) :
       /\ TLen(adOut.files[i].content) > 30000
       /\ adOut.files[i] = assembled[i]
  /\ Len(adOut.warnings) = 1


(***************************************************************************)
(* Validator: JavaScript string primitives (indices are 0-based as in the  *)
(* source; -1 means "not found")                                           *)
(***************************************************************************)
\* s.slice(from, to)
StrSlice(s, from, to) == SubSeq(s, from + 1, to)
\* s.slice(from)
StrFrom(s, from) == SubSeq(s, from + 1, Len(s))
\* s.startsWith(p, at)
StartsWithAt(s, p, at) == at + Len(p) <= Len(s) /\ StrSlice(s, at, at + Len(p)) = p
StartsWith(s, p) == StartsWithAt(s, p, 0)
EndsWith(s, p) == Len(p) <= Len(s) /\ StrFrom(s, Len(s) - Len(p)) = p
RECURSIVE FirstIndexIn(_, _, _, _)
\* the first index in lo..hi at which p stands in s, -1 if there is none;
\* the range is searched half by half, the left half first
FirstIndexIn(s, p, lo, hi) ==
  IF lo > hi THEN -1
  ELSE IF lo = hi THEN (IF StartsWithAt(s, p, lo) THEN lo ELSE -1)
  ELSE LET mid == (lo + hi) \div 2
           left == FirstIndexIn(s, p, lo, mid)
       IN IF left >= 0 THEN left ELSE FirstIndexIn(s, p, mid + 1, hi)

\* s.indexOf(p, from)
IndexOfFrom(s, p, from) ==
  FirstIndexIn(s, p, IF from < 0 THEN 0 ELSE from, Len(s) - Len(p))
IndexOf(s, p) == IndexOfFrom(s, p, 0)
Includes(s, p) == IndexOf(s, p) >= 0

WhiteSpace == {" ", "\t", "\r", "\n"}

\* s.trim()
Trim(s) ==
  LET inked == {i \in 1..Len(s) : SubSeq(s, i, i) \notin WhiteSpace}
  IN IF inked = {} THEN ""
     ELSE SubSeq(s, CHOOSE i \in inked : \A j \in inked : i <= j,
                    CHOOSE i \in inked : \A j \in inked : i >= j)

RECURSIVE Split(_, _)
\* s.split(sep) for a non-empty separator
Split(s, sep) ==
  With(IndexOf(s, sep), LAMBDA at :
    IF at < 0 THEN <<s>>
    ELSE <<StrSlice(s, 0, at)>> \o Split(StrFrom(s, at + Len(sep)), sep))

\* s.split(/\r?\n/)
SplitLines(s) ==
  With(Split(s, "\n"), LAMBDA pieces :
    [i \in 1..Len(pieces) |->
       IF i < Len(pieces) /\ EndsWith(pieces[i], "\r")
       THEN StrSlice(pieces[i], 0, Len(pieces[i]) - 1)
       ELSE pieces[i]])

\* nothing is falsy
NeverFalsy(value) == FALSE
\* !value for a string or undefined (undefined is carried as "")
Falsy(value) == value = ""


(***************************************************************************)
(* Validator: file contents and parseFrontmatter                           *)
(* A content is [head, pad]: the text head followed by pad filler          *)
(* characters "x"; only head needs spelling out.                           *)
(***************************************************************************)
Content(head, pad) == [head |-> head, pad |-> pad]
NoContent == Content("", 0)

\* content.length
ContentLength(content) == Len(content.head) + content.pad

\* the smaller of two indexOf results, -1 when both are -1
FirstIndex(a, b) == IF a < 0 THEN b ELSE IF b < 0 THEN a ELSE IF a < b THEN a ELSE b

\* for (const line of match[1].split(/\r?\n/)) { ... fields[key] = value }
FrontmatterFields(block) ==
  FlatMap(SplitLines(block), LAMBDA line :
    With(IndexOf(line, ":"), LAMBDA colonIdx :
      IF colonIdx > 0
      THEN <<[key |-> Trim(StrSlice(line, 0, colonIdx)),
              value |-> Trim(StrFrom(line, colonIdx + 1))]>>
      ELSE <<>>))

\* content.match(/^---\r?\n([\s\S]*?)\r?\n---\r?\n?([\s\S]*)$/)
parseFrontmatter(content) ==
  With(content.head, LAMBDA h :
  With(IF StartsWith(h, "---\n") THEN 4
       ELSE IF StartsWith(h, "---\r\n") THEN 5 ELSE -1, LAMBDA open :
  With(IF open < 0 THEN -1
       ELSE FirstIndex(IndexOfFrom(h, "\n---", open), IndexOfFrom(h, "\r\n---", open)),
       LAMBDA close :
    IF close < 0
    THEN [found |-> FALSE, fields |-> <<>>, body |-> content]
    ELSE LET afterDashes == close + (IF StartsWithAt(h, "\r\n---", close) THEN 5 ELSE 4)
             afterCR == afterDashes + (IF StartsWithAt(h, "\r", afterDashes) THEN 1 ELSE 0)
             afterLF == afterCR + (IF StartsWithAt(h, "\n", afterCR) THEN 1 ELSE 0)
         IN [found |-> TRUE,
             fields |-> FrontmatterFields(StrSlice(h, open, close)),
             body |-> Content(StrFrom(h, afterLF), content.pad)])))

\* fm.fields[key]: the last assignment wins; undefined is carried as ""
Field(fm, key) ==
  LET hits == {i \in 1..Len(fm.fields) : fm.fields[i].key = key}
  IN IF hits = {} THEN ""
     ELSE fm.fields[CHOOSE i \in hits : \A j \in hits : i >= j].value

(***************************************************************************)
(* Validator: the projects validated                                       *)
(***************************************************************************)
AgentComplete == "---\nname: reviewer\ndescription: Reviews pull requests\n---\n\n# Reviewer\n"
AgentCRLF == "---\r\nname: reviewer\r\ndescription: Reviews pull requests\r\n---\r\n# Reviewer\r\n"
AgentNoFrontmatter == "# Reviewer\n\nReviews pull requests.\n"
AgentUnclosed == "---\nname: reviewer\n\n# Reviewer\n"
AgentNoName == "---\ndescription: Reviews pull requests\n---\n# Reviewer\n"
AgentNoDescription == "---\nname: reviewer\n---\n# Reviewer\n"

MdcComplete == "---\ndescription: Style rules\nglobs: **/*.ts, **/*.tsx\nalwaysApply: false\n---\nUse strict mode.\n"
MdcNoFrontmatter == "Use strict mode.\n"
MdcNoDescription == "---\nglobs: **/*.ts\n---\nUse strict mode.\n"
MdcNoGlobs == "---\ndescription: Style rules\nalwaysApply: false\n---\nUse strict mode.\n"
MdcAlwaysApply == "---\ndescription: Style rules\nalwaysApply: true\n---\nUse strict mode.\n"
MdcDeadGlob == "---\ndescription: Python rules\nglobs: **/*.py\n---\nUse type hints.\n"
MdcTraversal == "---\ndescription: Shared rules\nglobs: ../shared/*.ts\n---\nUse strict mode.\n"
MdcUniversal == "---\ndescription: Everything\nglobs: **/*\n---\nBe concise.\n"
MdcMixed == "---\ndescription: Mixed rules\nglobs: **/*.py, **/CLAUDE.md, **/*.mdc, **\n---\nUse strict mode.\n"
MdcAbsolute == "---\ndescription: System rules\nglobs: /etc/*.conf\n---\nUse strict mode.\n"
MdcUnsafeMixed == "---\ndescription: Shared rules\nglobs: /etc/*.conf, src/*.ts, ../shared/*.ts\n---\nUse strict mode.\n"
MdcMalformed == "---\ndescription: Bracket rules\nglobs: src/[*.ts\n---\nUse strict mode.\n"
MdcAllDead == "---\ndescription: Docs rules\nglobs: **/*.py, docs/*.md, **/*\n---\nWrite short sentences.\n"
MdcEmptyDead == "---\ndescription: Python rules\nglobs: **/*.py\n---\n\n \t\n"
MdcTraversalLive == "---\ndescription: Source rules\nglobs: src/../src/*.ts\n---\nUse strict mode.\n"

InstrComplete == "---\napplyTo: \"**/*.ts\"\n---\nPrefer const.\n"
InstrNoFrontmatter == "Prefer const.\n"
InstrNoApplyTo == "---\ndescription: TypeScript\n---\nPrefer const.\n"
InstrDeadLive == "---\napplyTo: \"docs/*.md, **/*.ts\"\n---\nPrefer const.\n"

SettingsContents ==
  { "", "{ not json", "null", "42", "\"amp\"", "true", "[]", "{}",
    "{\"$schema\": \"\"}",
    "{\"$schema\": \"https://amp.dev/schemas/settings.json\"}" }

\* a file under projectRoot; w is the UTF-8 width of a filler character
File(path, head, pad, w) == [path |-> path, head |-> head, pad |-> pad, w |-> w]

\* fs.statSync(match).size
StatSize(f) == Len(f.head) + f.pad * f.w

\* the project's own files
SourceFiles ==
  { File("src/index.ts", "export {};\n", 0, 1),
    File("src/app.tsx", "export {};\n", 0, 1),
    File("README.md", "# shop\n", 0, 1) }

\* the AI-tool config files a project may hold
ConfigFilePool ==
  {File(".claude/agents/reviewer.md", h, 0, 1) :
     h \in {AgentComplete, AgentCRLF, AgentNoFrontmatter, AgentUnclosed,
            AgentNoName, AgentNoDescription}}
  \cup {File(".github/agents/reviewer.agent.md", h, pad, 1) :
          h \in {AgentComplete, AgentNoFrontmatter, AgentNoName, AgentNoDescription},
          pad \in {0, 30100}}
  \cup {File(".cursor/rules/style.mdc", h, 0, 1) :
          h \in {MdcComplete, MdcNoFrontmatter, MdcNoDescription, MdcNoGlobs,
                 MdcAlwaysApply, MdcDeadGlob, MdcTraversal, MdcUniversal,
                 MdcMixed, MdcAbsolute, MdcMalformed, MdcAllDead, MdcEmptyDead,
                 MdcTraversalLive, MdcUnsafeMixed}}
  \cup {File(".github/instructions/ts.instructions.md", h, pad, 1) :
          h \in {InstrComplete, InstrNoFrontmatter, InstrNoApplyTo},
          pad \in {0, 30100}}
  \cup {File(".github/instructions/ts.instructions.md", InstrDeadLive, 0, 1)}
  \cup {File("AGENTS.md", "# Agents\n", pad, 1) : pad \in {1200, 40000}}
  \cup {File("AGENTS.override.md", "# Agents\n", 1200, 1),
        File("AGENTS.override.md", "# Agents\n", 40000, 1),
        File("AGENTS.override.md", "# Agents\n", 12000, 3),
        File("AGENTS.override.md", "# Agents\n", 11000000, 1),
        File("packages/api/AGENTS.md", "# Agents\n", 40000, 1),
        File(".windsurfrules", "# Rules\n", 6100, 1),
        File("CLAUDE.md", "# shop\n", 800, 1)}
  \cup {File(".amp/settings.json", h, 0, 1) : h \in SettingsContents}

\* the files that may lie beside the file looked at
CompanionPool ==
  { File("AGENTS.md", "# Agents\n", 40000, 1),
    File("CLAUDE.md", "# shop\n", 800, 1),
    File(".cursor/rules/style.mdc", MdcNoFrontmatter, 0, 1),
    File(".github/agents/reviewer.agent.md", AgentNoDescription, 0, 1),
    File(".amp/settings.json", "{}", 0, 1) }

RECURSIVE FileSetsUpTo(_, _)
\* sets of at most k files of pool with distinct paths
FileSetsUpTo(pool, k) ==
  IF k = 0 THEN {{}}
  ELSE LET smaller == FileSetsUpTo(pool, k - 1)
       IN smaller \cup
          UNION {{P \cup {f} : f \in {g \in pool : \A e \in P : e.path # g.path}}
                 : P \in smaller}

\* at most MaxConfigFiles config files: any one of the pool, the rest companions
Projects ==
  {Q \in {P \cup C : P \in FileSetsUpTo(ConfigFilePool, 1),
                     C \in FileSetsUpTo(CompanionPool, MaxConfigFiles - 1)} :
     \A e, g \in Q : e.path = g.path => e = g}

(***************************************************************************)
(* scanExistingConfigs                                                     *)
(***************************************************************************)
\* one path segment against one pattern segment holding at most one "*"
SegmentMatches(pat, seg) ==
  LET star == IndexOf(pat, "*")
  IN IF star < 0 THEN pat = seg
     ELSE /\ Len(seg) >= Len(pat) - 1
          /\ StartsWith(seg, StrSlice(pat, 0, star))
          /\ EndsWith(seg, StrFrom(pat, star + 1))

RECURSIVE GlobMatches(_, _)
\* glob(pattern, { nodir: true, dot: true }) selects the file at path
GlobMatches(pat, path) ==
  IF pat = "**" THEN TRUE
  ELSE IF StartsWith(pat, "**/")
  THEN \/ GlobMatches(StrFrom(pat, 3), path)
       \/ \E i \in 1..Len(path) :
            SubSeq(path, i, i) = "/" /\ GlobMatches(StrFrom(pat, 3), StrFrom(path, i))
  ELSE LET patSlash == IndexOf(pat, "/")
           pathSlash == IndexOf(path, "/")
       IN IF patSlash < 0
          THEN pathSlash < 0 /\ SegmentMatches(pat, path)
          ELSE /\ pathSlash >= 0
               /\ SegmentMatches(StrSlice(pat, 0, patSlash), StrSlice(path, 0, pathSlash))
               /\ GlobMatches(StrFrom(pat, patSlash + 1), StrFrom(path, pathSlash + 1))

\* Object.entries(CONFIG_PATTERNS), flattened to (tool, pattern) in order
CONFIG_PATTERNS ==
  << <<"claude", "CLAUDE.md">>, <<"claude", ".claude/agents/*.md">>,
     <<"claude", ".claude/settings.local.json">>,
     <<"cursor", ".cursor/rules/*.mdc">>, <<"cursor", ".cursorrules">>,
     <<"cursor", "AGENTS.md">>,
     <<"codex", "AGENTS.md">>, <<"codex", "AGENTS.override.md">>,
     <<"codex", "**/AGENTS.md">>,
     <<"copilot", ".github/copilot-instructions.md">>,
     <<"copilot", ".github/instructions/*.instructions.md">>,
     <<"copilot", ".github/agents/*.agent.md">>,
     <<"windsurf", ".windsurfrules">>, <<"windsurf", ".windsurf/rules/*.md">>,
     <<"gemini", "GEMINI.md">>, <<"gemini", "**/GEMINI.md">>,
     <<"amp", "AGENTS.md">>, <<"amp", ".amp/settings.json">> >>

MAX_CONFIG_READ_SIZE == 10 * 1024 * 1024

RECURSIVE InSomeOrder(_)
\* the matches of one glob call as a list
InSomeOrder(S) ==
  IF S = {} THEN <<>>
  ELSE LET f == CHOOSE g \in S : TRUE IN <<f>> \o InSomeOrder(S \ {f})

\* configs.push({ tool, filePath, sizeBytes, content, ... })
ExistingConfig(tool, f) ==
  [tool |-> tool, filePath |-> f.path, sizeBytes |-> StatSize(f),
   hasContent |-> StatSize(f) <= MAX_CONFIG_READ_SIZE,
   content |-> IF StatSize(f) <= MAX_CONFIG_READ_SIZE THEN Content(f.head, f.pad) ELSE NoContent]

\* the seen set left out: every match of every pattern is pushed
EveryMatch(files, found) == files

\* if (seen.has(relativePath)) continue; seen.add(relativePath): the matches
\* whose relative path was not pushed before
Unseen(files, found) ==
  {f \in files : f.path \notin {found[k].filePath : k \in 1..Len(found)}}

RECURSIVE ScanFrom(_, _, _)
\* the loop over CONFIG_PATTERNS from entry i on, configs holding what was
\* pushed so far
ScanFrom(i, files, found) ==
  IF i > Len(CONFIG_PATTERNS) THEN found
  ELSE With({f \in Unseen(files, found) : GlobMatches(CONFIG_PATTERNS[i][2], f.path)},
         LAMBDA matches :
           ScanFrom(i + 1, files,
                    found \o [k \in 1..Cardinality(matches) |->
                                ExistingConfig(CONFIG_PATTERNS[i][1], InSomeOrder(matches)[k])]))

scanExistingConfigs(files) == ScanFrom(1, files, <<>>)

(***************************************************************************)
(* Per-tool validators                                                     *)
(***************************************************************************)
Issue(tool, file, severity, message) ==
  [tool |-> tool, file |-> file, severity |-> severity, message |-> message]

\* config.content ?? ""
ContentOf(config) == IF config.hasContent THEN config.content ELSE NoContent

validateClaudeConfig(config) ==
  IF Includes(config.filePath, ".claude/agents/")
  THEN With(parseFrontmatter(ContentOf(config)), LAMBDA fm :
         IF ~fm.found
         THEN <<Issue("claude", config.filePath, "error",
                      "Claude agent file missing YAML frontmatter (---)")>>
         ELSE (IF Falsy(Field(fm, "name"))
               THEN <<Issue("claude", config.filePath, "error",
                            "Claude agent frontmatter missing 'name' field")>>
               ELSE <<>>)
              \o (IF Falsy(Field(fm, "description"))
                  THEN <<Issue("claude", config.filePath, "warning",
                               "Claude agent frontmatter missing 'description' field")>>
                  ELSE <<>>))
  ELSE <<>>

validateCursorConfig(config) ==
  IF EndsWith(config.filePath, ".mdc")
  THEN With(parseFrontmatter(ContentOf(config)), LAMBDA fm :
         IF ~fm.found
         THEN <<Issue("cursor", config.filePath, "error",
                      "Cursor .mdc file missing YAML frontmatter (---)")>>
         ELSE (IF Falsy(Field(fm, "description"))
               THEN <<Issue("cursor", config.filePath, "warning",
                            "Cursor .mdc frontmatter missing 'description' field")>>
               ELSE <<>>)
              \o (IF Falsy(Field(fm, "globs")) /\ Field(fm, "alwaysApply") # "true"
                  THEN <<Issue("cursor", config.filePath, "warning",
                               "Cursor .mdc frontmatter missing 'globs' field and 'alwaysApply' is not true")>>
                  ELSE <<>>))
  ELSE <<>>

\* TOOL_REGISTRY.copilot.maxContextSize
COPILOT_CHAR_LIMIT == 30000

\* the message quotes the size in KB or k chars; the fixed part is kept
validateCodexConfig(config) ==
  IF config.filePath = "AGENTS.md" \/ config.filePath = "AGENTS.override.md"
  THEN IF config.sizeBytes > CODEX_BYTE_LIMIT
       THEN <<Issue("codex", config.filePath, "error", "File exceeds Codex 32KB limit")>>
       ELSE <<>>
  ELSE <<>>

validateCopilotConfig(config) ==
  With(ContentOf(config), LAMBDA content :
  With(parseFrontmatter(content), LAMBDA fm :
     (IF EndsWith(config.filePath, ".instructions.md")
      THEN IF ~fm.found
           THEN <<Issue("copilot", config.filePath, "error",
                        "Copilot instruction file missing YAML frontmatter")>>
           ELSE IF Falsy(Field(fm, "applyTo"))
           THEN <<Issue("copilot", config.filePath, "warning",
                        "Copilot instruction file missing 'applyTo' field")>>
           ELSE <<>>
      ELSE <<>>)
     \o (IF EndsWith(config.filePath, ".agent.md")
         THEN IF ~fm.found
              THEN <<Issue("copilot", config.filePath, "error",
                           "Copilot agent file missing YAML frontmatter")>>
              ELSE (IF Falsy(Field(fm, "name"))
                    THEN <<Issue("copilot", config.filePath, "error",
                                 "Copilot agent frontmatter missing 'name' field")>>
                    ELSE <<>>)
                   \o (IF Falsy(Field(fm, "description"))
                       THEN <<Issue("copilot", config.filePath, "warning",
                                    "Copilot agent frontmatter missing 'description' field")>>
                       ELSE <<>>)
         ELSE <<>>)
     \o (IF ContentLength(content) > COPILOT_CHAR_LIMIT
         THEN <<Issue("copilot", config.filePath, "error", "File exceeds Copilot 30k char limit")>>
         ELSE <<>>)))

validateWindsurfConfig(config) ==
  IF config.filePath = ".windsurfrules" /\ ContentLength(ContentOf(config)) > WINDSURF_CHAR_LIMIT
  THEN <<Issue("windsurf", config.filePath, "error", "File exceeds Windsurf 6,000 char limit")>>
  ELSE <<>>

validateGeminiConfig(config) ==
  IF config.filePath # "GEMINI.md" /\ EndsWith(config.filePath, "GEMINI.md")
  THEN <<Issue("gemini", config.filePath, "warning",
               "Nested GEMINI.md detected - Gemini CLI loads these hierarchically which may cause context duplication")>>
  ELSE <<>>


\* a text JSON.stringify(settings, null, 2) wrote for the settings object of
\* the Amp adapter: an object whose first member is "$schema"
StringifiedSettings(text) ==
  /\ StartsWith(text, "{\n  \"$schema\": \"https://amp.dev/schemas/settings.json\",\n  \"project\": {\n")
  /\ EndsWith(text, "\n  }\n}")

\* JSON.parse(text) on the settings texts of the pool: the kind of value it
\* returns and its "$schema" member, or a SyntaxError (ok = FALSE)
JSONParse(text) ==
  LET value(kind, hasSchema, schema) ==
        [ok |-> TRUE, kind |-> kind, hasSchema |-> hasSchema, schema |-> schema]
  IN CASE text = "null" -> value("null", FALSE, "")
       [] text = "42" -> value("number", FALSE, "")
       [] text = "\"amp\"" -> value("string", FALSE, "")
       [] text = "true" -> value("boolean", FALSE, "")
       [] text = "[]" -> value("array", FALSE, "")
       [] text = "{}" -> value("object", FALSE, "")
       [] text = "{\"$schema\": \"\"}" -> value("object", TRUE, "")
       [] text = "{\"$schema\": \"https://amp.dev/schemas/settings.json\"}"
            -> value("object", TRUE, "https://amp.dev/schemas/settings.json")
       [] StringifiedSettings(text)
            -> value("object", TRUE, "https://amp.dev/schemas/settings.json")
       [] OTHER -> [ok |-> FALSE, kind |-> "none", hasSchema |-> FALSE, schema |-> ""]

\* parsed["$schema"]: a TypeError on null, undefined (carried as "") on a
\* value without the member
ReadSchema(parsed) == IF parsed.kind = "null" THEN Thrown ELSE Returned(parsed.schema)

validateAmpConfig(config) ==
  IF config.filePath = ".amp/settings.json"
  THEN With(JSONParse(ContentOf(config).head), LAMBDA parsed :
         LET schema == ReadSchema(parsed)
         IN IF ~parsed.ok \/ ~schema.ok
            THEN <<Issue("amp", config.filePath, "error", "Amp settings.json is not valid JSON")>>
            ELSE IF Falsy(schema.val)
            THEN <<Issue("amp", config.filePath, "warning", "Amp settings.json missing '$schema' field")>>
            ELSE <<>>)
  ELSE <<>>

\* TOOL_VALIDATORS[config.tool](config, projectRoot)
ToolValidator(config) ==
  CASE config.tool = "claude" -> validateClaudeConfig(config)
    [] config.tool = "cursor" -> validateCursorConfig(config)
    [] config.tool = "codex" -> validateCodexConfig(config)
    [] config.tool = "copilot" -> validateCopilotConfig(config)
    [] config.tool = "windsurf" -> validateWindsurfConfig(config)
    [] config.tool = "gemini" -> validateGeminiConfig(config)
    [] config.tool = "amp" -> validateAmpConfig(config)

(***************************************************************************)
(* Glob pattern validation and validateConfigs                             *)
(***************************************************************************)
\* value.replace(/^"(.*)"$/, "$1")
Unquote(value) ==
  IF Len(value) >= 2 /\ StartsWith(value, "\"") /\ EndsWith(value, "\"")
  THEN StrSlice(value, 1, Len(value) - 1) ELSE value

\* value.split(",").map(g => g.trim())
CommaList(value) == Map(Split(value, ","), Trim)

extractGlobPatterns(config) ==
  With(parseFrontmatter(ContentOf(config)), LAMBDA fm :
    IF ~fm.found THEN <<>>
    ELSE Filter((IF Falsy(Field(fm, "globs")) THEN <<>> ELSE CommaList(Field(fm, "globs")))
                \o (IF Falsy(Field(fm, "applyTo")) THEN <<>>
                    ELSE CommaList(Unquote(Field(fm, "applyTo")))),
                LAMBDA g : g # ""))

\* pattern.includes("..")
TraversalOnly(pattern) == Includes(pattern, "..")
\* pattern.includes("..") || path.isAbsolute(pattern)
UnsafePattern(pattern) == Includes(pattern, "..") \/ StartsWith(pattern, "/")

RECURSIVE NormalizeSegments(_, _)
\* path normalisation: "." and empty segments go, ".." takes the segment
\* before it along (and stays when there is none: above projectRoot)
NormalizeSegments(segs, kept) ==
  IF segs = <<>> THEN kept
  ELSE LET seg == Head(segs)
       IN IF seg = "." \/ seg = "" THEN NormalizeSegments(Tail(segs), kept)
          ELSE IF seg = ".." /\ kept # <<>> /\ kept[Len(kept)] # ".."
          THEN NormalizeSegments(Tail(segs), SubSeq(kept, 1, Len(kept) - 1))
          ELSE NormalizeSegments(Tail(segs), Append(kept, seg))

\* path.join(projectRoot, pattern), as a path relative to projectRoot
PathJoin(pattern) == Join(NormalizeSegments(Split(pattern, "/"), <<>>), "/")

\* pattern === "**/*" || pattern === "**"
Universal(pattern) == pattern = "**/*" \/ pattern = "**"

\* a path with a segment that starts with a dot
HasDotSegment(path) == StartsWith(path, ".") \/ Includes(path, "/.")

\* glob(fullPattern, { nodir: true }): dot files and directories are skipped
GlobVisible(pattern, files) ==
  {f \in files : ~HasDotSegment(f.path) /\ GlobMatches(PathJoin(pattern), f.path)}
\* await glob(fullPattern, { nodir: true, dot: true })
Glob(pattern, files) == {f \in files : GlobMatches(PathJoin(pattern), f.path)}

\* a pattern with a character class that is never closed
MalformedPattern(pattern) == Includes(pattern, "[") /\ ~Includes(pattern, "]")
\* the glob call ends in an exception
GlobThrows(pattern) == globRejects /\ MalformedPattern(pattern)

\* one turn of the loop of validateGlobPatterns: the issues pushed and the
\* patterns handed to glob
ValidatePattern(config, pattern, files) ==
  IF Universal(pattern) THEN [issues |-> <<>>, globbed |-> {}]
  ELSE IF UnsafePattern(pattern)
  THEN [issues |-> <<Issue(config.tool, config.filePath, "error",
                       "Glob pattern \"" \o pattern \o "\" contains path traversal or absolute path")>>,
        globbed |-> {}]
  ELSE IF GlobThrows(pattern)
  THEN [issues |-> <<Issue(config.tool, config.filePath, "warning",
                       "Invalid glob pattern: \"" \o pattern \o "\"")>>,
        globbed |-> {pattern}]
  ELSE IF Glob(pattern, files) = {}
  THEN [issues |-> <<Issue(config.tool, config.filePath, "warning",
                       "Glob pattern \"" \o pattern \o "\" matches 0 files in the project")>>,
        globbed |-> {pattern}]
  ELSE [issues |-> <<>>, globbed |-> {pattern}]

validateGlobPatterns(config, files) ==
  FlatMap(extractGlobPatterns(config),
          LAMBDA pattern : ValidatePattern(config, pattern, files).issues)

\* the patterns validateGlobPatterns hands to glob for one config
GlobbedByValidator(config, files) ==
  UNION {ValidatePattern(config, pattern, files).globbed :
           pattern \in Range(extractGlobPatterns(config))}

\* everything under projectRoot
ProjectFiles == project \cup SourceFiles

\* the exceptions raised at a site no try block encloses leave the function
Escaping(raised) == raised
\* try { ... } catch { ... } around the site (JSON.parse and the member
\* read in validateAmpConfig, the glob call in validateGlobPatterns and in
\* checkDeadGlobs): nothing raised there leaves the function
CatchAll(raised) == {}

\* what JSON.parse and parsed["$schema"] raise in validateAmpConfig
AmpRaised(config) ==
  IF config.filePath = ".amp/settings.json"
  THEN With(JSONParse(ContentOf(config).head), LAMBDA parsed :
         IF ~parsed.ok THEN {"SyntaxError"}
         ELSE IF ~ReadSchema(parsed).ok THEN {"TypeError"}
         ELSE {})
  ELSE {}

\* what the glob calls of validateGlobPatterns raise for one config
ValidatorGlobRaised(config, files) ==
  {pattern \in GlobbedByValidator(config, files) : GlobThrows(pattern)}

\* the exceptions that leave the loop of validateConfigs
ValidatorEscapes(found, files) ==
  UNION {CatchAll(AmpRaised(found[i])) \cup CatchAll(ValidatorGlobRaised(found[i], files))
           : i \in 1..Len(found)}

\* errors.length: every error counted, also the second of one file
ErrorCount(errors) == Len(errors)
\* new Set(errors.map((e) => e.file)).size
ErrorFileCount(errors) == Cardinality({errors[k].file : k \in 1..Len(errors)})

ValidationResult(found, allIssues) ==
  LET errors == Filter(allIssues, LAMBDA i : i.severity = "error")
  IN [configsFound |-> Len(found),
      configsValid |-> Len(found) - ErrorFileCount(errors),
      issues |-> errors,
      warnings |-> Filter(allIssues, LAMBDA i : i.severity = "warning")]

InitValidator ==
  /\ project \in Projects
  /\ configs = <<>>
  /\ formatIssues = <<>>
  /\ result = NoResult
  /\ valPc = "start"
  /\ globbed = {}
  /\ globRejects \in BOOLEAN
  /\ RecommenderIdle
  /\ AdaptersIdle
  /\ PrunerIdle
  /\ FixerIdle
  /\ CommandsIdle

\* validateConfigs: const configs = await scanExistingConfigs(projectRoot)
ScanExistingConfigs ==
  /\ valPc = "start"
  /\ configs' = scanExistingConfigs(ProjectFiles)
  /\ valPc' = "scanned"
  /\ UNCHANGED <<project, formatIssues, result, globbed, globRejects, nonValVars>>

\* validateConfigs: the loop over configs and the returned result, or
\* the exception that ends the call
ValidateScanned ==
  /\ valPc = "scanned"
  /\ IF ValidatorEscapes(configs, ProjectFiles) = {}
     THEN /\ formatIssues' = Map(configs, ToolValidator)
          /\ result' = ValidationResult(configs,
                         FlatMap(configs,
                           LAMBDA config : ToolValidator(config)
                                             \o validateGlobPatterns(config, ProjectFiles)))
          /\ valPc' = "validated"
     ELSE /\ valPc' = "threw"
          /\ UNCHANGED <<formatIssues, result>>
  /\ globbed' = globbed \cup UNION {GlobbedByValidator(configs[i], ProjectFiles) : i \in 1..Len(configs)}
  /\ UNCHANGED <<project, configs, globRejects, nonValVars>>

NextValidator == ScanExistingConfigs \/ ValidateScanned

SpecValidator == InitValidator /\ [][NextValidator]_vars


(***************************************************************************)
(* Claims about the validator's structural check                           *)
(***************************************************************************)
Validated == valPc = "validated"

\* the error-severity issues / warnings validateConfigs returned for a file
ErrorsFor(path) == Filter(result.issues, LAMBDA i : i.file = path)
WarningsFor(path) == Filter(result.warnings, LAMBDA i : i.file = path)

\* C8: validateConfigs reports an error-severity issue for every root-level
\* AGENTS.md or AGENTS.override.md of the project that is larger than 32768
\* bytes.
C8_OversizeAgentsFileIsError ==
  Validated =>
    \A f \in project :
      (f.path \in {"AGENTS.md", "AGENTS.override.md"} /\ StatSize(f) > 32768)
        => Len(ErrorsFor(f.path)) > 0

\* what the author of a file put into it
NoBlockHeads == {AgentNoFrontmatter, AgentUnclosed, MdcNoFrontmatter, InstrNoFrontmatter}
NoNameHeads == {AgentNoName}
OnlyDescriptiveMissingHeads == {AgentNoDescription, MdcNoDescription, MdcNoGlobs, InstrNoApplyTo}

IsAgentFile(config) ==
  \/ config.tool = "claude" /\ Includes(config.filePath, ".claude/agents/")
  \/ config.tool = "copilot" /\ EndsWith(config.filePath, ".agent.md")

RequiresFrontmatter(config) ==
  \/ IsAgentFile(config)
  \/ config.tool = "cursor" /\ EndsWith(config.filePath, ".mdc")
  \/ config.tool = "copilot" /\ EndsWith(config.filePath, ".instructions.md")

SeverityCount(issues, severity) == Len(Filter(issues, LAMBDA i : i.severity = severity))

\* no frontmatter block: an error; no name on an agent file: an error
\* naming the field
C9_BlockAndName(config, own) ==
  /\ config.content.head \in NoBlockHeads => SeverityCount(own, "error") > 0
  /\ (IsAgentFile(config) /\ config.content.head \in NoNameHeads)
       => \E k \in 1..Len(own) :
            own[k].severity = "error" /\ Includes(own[k].message, "'name'")

\* the original wording of C9: in the structural check of a file that
\* requires frontmatter, a block missing only a descriptive field yields
\* a warning and no error (besides the error for a missing block and the
\* error naming a missing name).
C9_StructuralCheck ==
  Validated =>
    \A i \in 1..Len(configs) :
      RequiresFrontmatter(configs[i]) =>
        /\ C9_BlockAndName(configs[i], formatIssues[i])
        /\ configs[i].content.head \in OnlyDescriptiveMissingHeads =>
             /\ SeverityCount(formatIssues[i], "warning") > 0
             /\ SeverityCount(formatIssues[i], "error") = 0

\* C9: in the structural check of a file that requires frontmatter, a
\* missing block yields an error, a block without name on an agent file
\* yields an error whose message contains the name token, and a block
\* missing only a descriptive field yields a warning; it yields no error
\* as long as the file is not a Copilot file of more than 30000
\* characters, for which the same check reports exactly the size error.
C9_StructuralCheckWithinSize ==
  Validated =>
    \A i \in 1..Len(configs) :
      RequiresFrontmatter(configs[i]) =>
        /\ C9_BlockAndName(configs[i], formatIssues[i])
        /\ configs[i].content.head \in OnlyDescriptiveMissingHeads =>
             /\ SeverityCount(formatIssues[i], "warning") > 0
             /\ SeverityCount(formatIssues[i], "error") =
                  (IF configs[i].tool = "copilot"
                      /\ ContentLength(configs[i].content) > 30000
                   THEN 1 ELSE 0)

\* a Copilot agent file lacking only its description, within the size
\* limit, was checked next to a .mdc file without frontmatter
C9_Witness ==
  /\ Validated
  /\ \E i, j \in 1..Len(configs) :
       /\ configs[i].tool = "copilot"
       /\ configs[i].content.head = AgentNoDescription
       /\ ContentLength(configs[i].content) <= 30000
       /\ SeverityCount(formatIssues[i], "warning") = 1
       /\ SeverityCount(formatIssues[i], "error") = 0
       /\ configs[j].content.head = MdcNoFrontmatter
       /\ SeverityCount(formatIssues[j], "error") = 1

\* C10: for .amp/settings.json, content that JSON.parse rejects yields an
\* error whose message contains "not valid JSON"; content that parses but
\* has no $schema key yields a warning and no error.
C10_AmpSettings ==
  Validated =>
    \A f \in project :
      f.path = ".amp/settings.json" =>
        LET parsed == JSONParse(f.head)
        IN /\ ~parsed.ok =>
                \E k \in 1..Len(result.issues) :
                  /\ result.issues[k].file = f.path
                  /\ Includes(result.issues[k].message, "not valid JSON")
           /\ (parsed.ok /\ ~parsed.hasSchema) =>
                /\ Len(WarningsFor(f.path)) > 0
                /\ Len(ErrorsFor(f.path)) = 0

(***************************************************************************)
(* Claims about glob validation and the validation result                  *)
(***************************************************************************)
\* the issues validateConfigs returned for a file whose message quotes the
\* pattern
IssuesNaming(path, pattern) ==
  Filter(result.issues \o result.warnings,
         LAMBDA i : i.file = path /\ Includes(i.message, "\"" \o pattern \o "\""))

\* how often x stands in the list
Occurrences(xs, x) == Cardinality({k \in 1..Len(xs) : xs[k] = x})

\* resolved against projectRoot, the pattern selects a file of the project
MatchesProject(pattern) == \E f \in ProjectFiles : GlobMatches(PathJoin(pattern), f.path)

\* a relative pattern without ".."
RelativeTraversalFree(pattern) == ~Includes(pattern, "..") /\ ~StartsWith(pattern, "/")

FilesWithoutError == {i \in 1..Len(configs) : Len(ErrorsFor(configs[i].filePath)) = 0}

\* C13: configsValid is configsFound minus the number of distinct files
\* with an error-severity issue; it lies between 0 and configsFound, equals
\* the number of scanned files without an error, and warnings do not
\* lower it.
C13_ValidCount ==
  Validated =>
    /\ result.configsFound = Len(configs)
    /\ result.configsValid =
         result.configsFound
           - Cardinality({result.issues[k].file : k \in 1..Len(result.issues)})
    /\ 0 <= result.configsValid
    /\ result.configsValid <= result.configsFound
    /\ result.configsValid = Cardinality(FilesWithoutError)
    /\ \A k \in 1..Len(result.issues) : result.issues[k].severity = "error"
    /\ \A k \in 1..Len(result.warnings) : result.warnings[k].severity = "warning"

\* two files were scanned: one with two errors, one with a warning only;
\* exactly the second counts as valid
C13_Witness ==
  /\ Validated
  /\ result.configsFound = 2
  /\ result.configsValid = 1
  /\ \E i, j \in 1..Len(configs) :
       /\ Len(ErrorsFor(configs[i].filePath)) = 2
       /\ Len(ErrorsFor(configs[j].filePath)) = 0
       /\ Len(WarningsFor(configs[j].filePath)) > 0

(***************************************************************************)
(* Pruner: checkEmptyContent, checkDeadGlobs, findPruneTargets             *)
(* The pruner parses frontmatter with the shared parser of                 *)
(* utils/frontmatter, which is the validator's parser word for word, and   *)
(* extracts patterns with its own copy of extractGlobPatterns.             *)
(***************************************************************************)
PruneTarget(config, reason, message) ==
  [tool |-> config.tool, file |-> config.filePath, reason |-> reason,
   message |-> message, sizeBytes |-> config.sizeBytes]

\* body.replace(/\s/g, "").length
MeaningfulLength(body) ==
  Cardinality({i \in 1..Len(body.head) : SubSeq(body.head, i, i) \notin WhiteSpace})
    + body.pad

\* `${n}` for a single digit
Digit(n) == SubSeq("0123456789", n + 1, n + 1)

EMPTY_CONTENT_LIMIT == 10

\* checkEmptyContent: the target as a 0/1-element list
checkEmptyContent(config) ==
  With(ContentOf(config), LAMBDA content :
  With(parseFrontmatter(content), LAMBDA fm :
  With(MeaningfulLength(IF fm.found THEN fm.body ELSE content), LAMBDA meaningful :
    IF meaningful < EMPTY_CONTENT_LIMIT
    THEN <<PruneTarget(config, "empty-content",
             "Config has " \o Digit(meaningful) \o " chars of content (effectively empty)")>>
    ELSE <<>>)))

\* patterns.filter((p) => p !== "**/*" && p !== "**")
SpecificPatterns(config) ==
  Filter(extractGlobPatterns(config), LAMBDA p : ~Universal(p))

\* one turn of the loop of checkDeadGlobs: what it adds to totalMatches and
\* the patterns handed to glob
CountPattern(pattern, files) ==
  IF UnsafePattern(pattern) THEN [matches |-> 0, globbed |-> {}]
  ELSE IF GlobThrows(pattern) THEN [matches |-> 0, globbed |-> {pattern}]
  ELSE [matches |-> Cardinality(Glob(pattern, files)), globbed |-> {pattern}]

\* the loop of checkDeadGlobs left totalMatches at 0: every turn added 0
NothingMatched(specific, files) ==
  \A k \in 1..Len(specific) : CountPattern(specific[k], files).matches = 0
\* the first pattern alone added 0
FirstUnmatched(specific, files) == CountPattern(specific[1], files).matches = 0

\* checkDeadGlobs: the target as a 0/1-element list
checkDeadGlobs(config, files) ==
  With(SpecificPatterns(config), LAMBDA specific :
    IF Len(specific) = 0 THEN <<>>
    ELSE IF NothingMatched(specific, files)
    THEN <<PruneTarget(config, "dead-globs",
             "All glob patterns match 0 files: " \o Join(specific, ", "))>>
    ELSE <<>>)

\* the patterns checkDeadGlobs hands to glob for one config
GlobbedByPruner(config, files) ==
  UNION {CountPattern(pattern, files).globbed : pattern \in Range(SpecificPatterns(config))}

\* both checks run on every config
CheckBoth(config, files) == checkEmptyContent(config) \o checkDeadGlobs(config, files)
\* the body of the loop of findPruneTargets: an empty config is pushed and
\* the dead-glob check skipped (continue)
CheckConfig(config, files) ==
  With(checkEmptyContent(config), LAMBDA emptyResult :
    IF emptyResult # <<>> THEN emptyResult
    ELSE checkDeadGlobs(config, files))

PruneResult(found, files) ==
  [configsScanned |-> Len(found),
   pruneTargets |-> FlatMap(found, LAMBDA config : CheckConfig(config, files))]

\* the exceptions that leave the loop of findPruneTargets
PrunerEscapes(found, files) ==
  UNION {IF checkEmptyContent(found[i]) # <<>> THEN {}
         ELSE CatchAll({pattern \in GlobbedByPruner(found[i], files) : GlobThrows(pattern)})
           : i \in 1..Len(found)}

InitPruner ==
  /\ project \in Projects
  /\ configs = <<>>
  /\ formatIssues = <<>>
  /\ result = NoResult
  /\ valPc = "idle"
  /\ globbed = {}
  /\ globRejects \in BOOLEAN
  /\ pruneResult = NoPruneResult
  /\ prPc = "start"
  /\ RecommenderIdle
  /\ AdaptersIdle
  /\ FixerIdle
  /\ CommandsIdle

\* findPruneTargets: const configs = await scanExistingConfigs(projectRoot)
PrunerScan ==
  /\ prPc = "start"
  /\ configs' = scanExistingConfigs(ProjectFiles)
  /\ prPc' = "scanned"
  /\ UNCHANGED <<project, formatIssues, result, valPc, globbed, globRejects,
                 pruneResult, nonPrVars>>

\* findPruneTargets: the loop over configs and the returned result, or
\* the exception that ends the call
PruneScanned ==
  /\ prPc = "scanned"
  /\ IF PrunerEscapes(configs, ProjectFiles) = {}
     THEN /\ pruneResult' = PruneResult(configs, ProjectFiles)
          /\ prPc' = "pruned"
     ELSE /\ prPc' = "threw"
          /\ UNCHANGED pruneResult
  /\ globbed' = globbed \cup
       UNION {IF checkEmptyContent(configs[i]) # <<>> THEN {}
              ELSE GlobbedByPruner(configs[i], ProjectFiles) : i \in 1..Len(configs)}
  /\ UNCHANGED <<project, configs, formatIssues, result, valPc, globRejects, nonPrVars>>

NextPruner == PrunerScan \/ PruneScanned

SpecPruner == InitPruner /\ [][NextPruner]_vars


(***************************************************************************)
(* Claims about unsafe patterns and the pruner                             *)
(***************************************************************************)
Pruned == prPc = "pruned"

\* the prune targets findPruneTargets returned for a file
TargetsFor(path) == Filter(pruneResult.pruneTargets, LAMBDA t : t.file = path)

\* C12: a frontmatter pattern containing ".." or an absolute path is never
\* handed to glob, neither by the validator nor by the pruner; the
\* validator reports an error-severity issue quoting it, and the file is
\* not counted valid.
C12_UnsafeNeverGlobbed ==
  /\ \A pattern \in globbed : ~Includes(pattern, "..") /\ ~StartsWith(pattern, "/")
  /\ Validated =>
       \A i \in 1..Len(configs) :
         \A pattern \in Range(extractGlobPatterns(configs[i])) :
           (Includes(pattern, "..") \/ StartsWith(pattern, "/")) =>
             /\ \E k \in 1..Len(result.issues) :
                  /\ result.issues[k].file = configs[i].filePath
                  /\ result.issues[k].severity = "error"
                  /\ Includes(result.issues[k].message, "\"" \o pattern \o "\"")
             /\ i \notin FilesWithoutError
             /\ result.configsValid < result.configsFound

\* a rule file declaring an absolute, a safe and a traversing pattern was
\* validated: only the safe one reached glob, both others are errors
C12_Witness ==
  /\ Validated
  /\ globbed = {"src/*.ts"}
  /\ \E i \in 1..Len(configs) :
       /\ configs[i].content.head = MdcUnsafeMixed
       /\ Len(ErrorsFor(configs[i].filePath)) = 2
       /\ Len(IssuesNaming(configs[i].filePath, "/etc/*.conf")) = 1
       /\ Len(IssuesNaming(configs[i].filePath, "../shared/*.ts")) = 1

\* the frontmatter-stripped body of what the scanner read
StrippedBody(config) ==
  LET fm == parseFrontmatter(ContentOf(config))
  IN IF fm.found THEN fm.body ELSE ContentOf(config)

\* C18: a scanned file whose frontmatter-stripped body has fewer than 10
\* non-whitespace characters is reported exactly once, with reason
\* empty-content, also when its patterns are dead; no file has more than
\* one prune target.
C18_EmptyContentOnce ==
  Pruned =>
    /\ pruneResult.configsScanned = Len(configs)
    /\ \A i \in 1..Len(configs) :
         LET targets == TargetsFor(configs[i].filePath)
         IN /\ Len(targets) <= 1
            /\ MeaningfulLength(StrippedBody(configs[i])) < 10
                 => /\ Len(targets) = 1
                    /\ targets[1].reason = "empty-content"
    /\ \A k \in 1..Len(pruneResult.pruneTargets) :
         \E i \in 1..Len(configs) :
           configs[i].filePath = pruneResult.pruneTargets[k].file

\* a rule file with a dead pattern and a body of blanks only was pruned:
\* one target, empty-content
C18_Witness ==
  /\ Pruned
  /\ \E i \in 1..Len(configs) :
       /\ configs[i].content.head = MdcEmptyDead
       /\ checkDeadGlobs(configs[i], ProjectFiles) # <<>>
       /\ Len(TargetsFor(configs[i].filePath)) = 1
       /\ TargetsFor(configs[i].filePath)[1].reason = "empty-content"
       /\ TargetsFor(configs[i].filePath)[1].message
            = "Config has 0 chars of content (effectively empty)"

\* C19: a scanned file that is not empty-content is reported with reason
\* dead-globs exactly if its frontmatter declares a non-universal pattern
\* and every non-universal pattern matches no project file; the message
\* then contains each of those patterns.
C19_DeadGlobs ==
  Pruned =>
    \A i \in 1..Len(configs) :
      MeaningfulLength(StrippedBody(configs[i])) >= 10 =>
        LET targets == TargetsFor(configs[i].filePath)
            specific == Filter(extractGlobPatterns(configs[i]), LAMBDA p : ~Universal(p))
            dead == /\ Len(specific) > 0
                    /\ \A k \in 1..Len(specific) : ~MatchesProject(specific[k])
        IN /\ dead <=> (Len(targets) = 1 /\ targets[1].reason = "dead-globs")
           /\ ~dead => Len(targets) = 0
           /\ dead => \A k \in 1..Len(specific) :
                        Includes(targets[1].message, specific[k])


(***************************************************************************)
(* Fixer: string primitives of the agent parser                            *)
(* The fixer reads the text of a content; its projects carry no filler.    *)
(***************************************************************************)
\* s.charAt(i)
CharAt(s, i) == IF i >= 0 /\ i < Len(s) THEN SubSeq(s, i + 1, i + 1) ELSE ""

UpperCaseLetters == "ABCDEFGHIJKLMNOPQRSTUVWXYZ"
LowerCaseLetters == "abcdefghijklmnopqrstuvwxyz"
LowerOf ==
  [c \in {SubSeq(UpperCaseLetters, i, i) : i \in 1..26} |->
     SubSeq(LowerCaseLetters, IndexOf(UpperCaseLetters, c) + 1,
                              IndexOf(UpperCaseLetters, c) + 1)]

RECURSIVE toLowerCase(_)
\* s.toLowerCase(), half by half
toLowerCase(s) ==
  IF Len(s) = 0 THEN ""
  ELSE IF Len(s) = 1 THEN (IF s \in DOMAIN LowerOf THEN LowerOf[s] ELSE s)
  ELSE toLowerCase(SubSeq(s, 1, Len(s) \div 2))
         \o toLowerCase(SubSeq(s, Len(s) \div 2 + 1, Len(s)))

\* what . does not match and what ^ and $ of a /m pattern stand next to
LineTerminators == {"\n", "\r"}

\* ^ of a /m pattern matches at p
AtLineStart(s, p) == p = 0 \/ CharAt(s, p - 1) \in LineTerminators

RECURSIVE SkipWhile(_, _, _)
\* the end of the longest run of characters of chars that starts at i
SkipWhile(s, i, chars) ==
  IF i < Len(s) /\ CharAt(s, i) \in chars THEN SkipWhile(s, i + 1, chars) ELSE i

\* the end of the longest run . matches from i on
LineEnd(s, i) ==
  LET lf == IndexOfFrom(s, "\n", i)
      cr == IndexOfFrom(s, "\r", i)
  IN IF FirstIndex(lf, cr) < 0 THEN Len(s) ELSE FirstIndex(lf, cr)

RECURSIVE SplitOn(_, _, _)
\* s.split(/[,;]/): the pieces of s from start on between the characters
\* of seps
SplitOn(s, seps, start) ==
  LET at == SkipWhile(s, start, {CharAt(s, k) : k \in start..(Len(s) - 1)} \ seps)
  IN IF at >= Len(s) THEN <<StrFrom(s, start)>>
     ELSE <<StrSlice(s, start, at)>> \o SplitOn(s, seps, at + 1)

RECURSIVE NumStr(_)
\* `${n}` for a natural number
NumStr(n) == IF n < 10 THEN Digit(n) ELSE NumStr(n \div 10) \o Digit(n % 10)

\* the text of what the scanner read
Text(content) == content.head

(***************************************************************************)
(* Fixer: agent extraction                                                 *)
(***************************************************************************)
ParsedAgent(tool, file, name, description, triggers) ==
  [tool |-> tool, file |-> file, name |-> name, description |-> description,
   triggers |-> triggers]

\* a fixer that reads agents from AGENTS.md only
OnlyAgentsMd(config) ==
  config.filePath = "AGENTS.md" /\ config.tool \in {"codex", "amp", "cursor"}

isAgentFile(config) ==
  \/ Includes(config.filePath, ".claude/agents/")
  \/ EndsWith(config.filePath, ".agent.md")
  \/ config.filePath = "AGENTS.md" /\ config.tool \in {"codex", "amp", "cursor"}

RECURSIVE HeadingFrom(_, _)
\* content.match(/^#\s+(.+)$/m)?.[1]?.trim() || "", searched from p on
HeadingFrom(s, p) ==
  LET hash == IndexOfFrom(s, "#", p)
  IN IF hash < 0 THEN ""
     ELSE IF AtLineStart(s, hash) /\ CharAt(s, hash + 1) \in WhiteSpace
     THEN LET q == SkipWhile(s, hash + 1, WhiteSpace)
          IN Trim(StrSlice(s, q, LineEnd(s, q)))
     ELSE HeadingFrom(s, hash + 1)

extractNameFromHeading(content) == HeadingFrom(content, 0)

extractFirstParagraph(body) ==
  With(Map(SplitLines(body), Trim), LAMBDA trimmed :
    With({i \in 1..Len(trimmed) :
            /\ trimmed[i] # ""
            /\ ~StartsWith(trimmed[i], "#")
            /\ ~StartsWith(trimmed[i], "-")
            /\ ~StartsWith(trimmed[i], "*")}, LAMBDA good :
      IF good = {} THEN ""
      ELSE trimmed[CHOOSE i \in good : \A j \in good : i <= j]))

RECURSIVE BoldFrom(_, _)
\* [...body.matchAll(/\*\*([^*]+)\*\*/g)].map((m) => m[1]), searched from i on
BoldFrom(s, i) ==
  LET open == IndexOfFrom(s, "**", i)
      star == IndexOfFrom(s, "*", open + 2)
      j == IF star < 0 THEN Len(s) ELSE star
  IN IF open < 0 THEN <<>>
     ELSE IF j > open + 2 /\ StartsWithAt(s, "**", j)
     THEN <<StrSlice(s, open + 2, j)>> \o BoldFrom(s, j + 2)
     ELSE BoldFrom(s, open + 1)

extractTriggersFromBody(body) ==
  Filter(Map(BoldFrom(body, 0), LAMBDA m : Trim(toLowerCase(m))),
         LAMBDA w : Len(w) > 2 /\ Len(w) < 30)

\* [:\s]
TriggerGap == WhiteSpace \cup {":"}

\* content.match(/(?:triggers?|when to activate)[:\s]*(.+)/i): the capture
\* as a 0/1-element list
TriggersMatch(content) ==
  With(toLowerCase(content), LAMBDA lower :
    LET t == IndexOf(lower, "trigger")
        w == IndexOf(lower, "when to activate")
        p == FirstIndex(t, w)
    IN IF p < 0 THEN <<>>
       ELSE LET stem == IF p = t THEN p + 7 ELSE p + 16
                e == IF p = t /\ CharAt(lower, stem) = "s" THEN stem + 1 ELSE stem
                q == SkipWhile(content, e, TriggerGap)
                back == {i \in e..(Len(content) - 1) : CharAt(content, i) \notin LineTerminators}
            IN IF q < Len(content) THEN <<StrSlice(content, q, LineEnd(content, q))>>
               ELSE IF back # {}
               THEN <<CharAt(content, CHOOSE i \in back : \A j \in back : i >= j)>>
               ELSE IF e > stem THEN <<StrSlice(content, stem, LineEnd(content, stem))>>
               ELSE <<>>)

extractTriggers(content) ==
  With(TriggersMatch(content), LAMBDA triggersMatch :
    IF triggersMatch # <<>>
    THEN Filter(Map(SplitOn(triggersMatch[1], {",", ";"}, 0),
                    LAMBDA t : toLowerCase(Trim(t))),
                LAMBDA t : t # "")
    ELSE extractTriggersFromBody(content))

\* parseAgentFromFile: the agent as a 0/1-element list
parseAgentFromFile(config) ==
  With(ContentOf(config), LAMBDA content :
  With(parseFrontmatter(content), LAMBDA fm :
  With(IF ~Falsy(Field(fm, "name")) THEN Field(fm, "name")
       ELSE With(extractNameFromHeading(Text(content)), LAMBDA heading :
              IF ~Falsy(heading) THEN heading ELSE config.filePath), LAMBDA name :
  With(IF ~Falsy(Field(fm, "description")) THEN Field(fm, "description")
       ELSE extractFirstParagraph(Text(fm.body)), LAMBDA description :
    IF Falsy(name) /\ Falsy(description) THEN <<>>
    ELSE <<ParsedAgent(config.tool, config.filePath, name, description,
                       extractTriggers(Text(content)))>>))))

\* where the separator /^#{2,3}\s+/m that starts at p ends, -1 if none does
SeparatorEnd(s, p) ==
  IF ~AtLineStart(s, p) THEN -1
  ELSE IF StartsWithAt(s, "###", p) /\ CharAt(s, p + 3) \in WhiteSpace
  THEN SkipWhile(s, p + 3, WhiteSpace)
  ELSE IF StartsWithAt(s, "##", p) /\ CharAt(s, p + 2) \in WhiteSpace
  THEN SkipWhile(s, p + 2, WhiteSpace)
  ELSE -1

RECURSIVE SplitSections(_, _, _)
\* content.split(/^#{2,3}\s+/m): the pieces of s from start on, the next
\* separator searched from i on
SplitSections(s, i, start) ==
  LET hashes == IndexOfFrom(s, "##", i)
      r == SeparatorEnd(s, hashes)
  IN IF hashes < 0 THEN <<StrFrom(s, start)>>
     ELSE IF r >= 0 THEN <<StrSlice(s, start, hashes)>> \o SplitSections(s, r, r)
     ELSE SplitSections(s, hashes + 1, start)

NON_AGENT_HEADINGS == <<"project overview", "tech stack", "rules", "conventions">>

parseAgentsFromAgentsMd(config) ==
  FlatMap(Tail(SplitSections(Text(ContentOf(config)), 0, 0)), LAMBDA section :
    With(SplitLines(section), LAMBDA lines :
    With(Trim(lines[1]), LAMBDA name :
    With(Trim(Join(Tail(lines), "\n")), LAMBDA body :
      IF name = "" THEN <<>>
      ELSE IF Some(NON_AGENT_HEADINGS, LAMBDA h : Includes(toLowerCase(name), h))
      THEN <<>>
      ELSE <<ParsedAgent(config.tool, config.filePath, name,
                         extractFirstParagraph(body),
                         extractTriggersFromBody(body))>>))))

(***************************************************************************)
(* Fixer: detection rules                                                  *)
(***************************************************************************)
FixIssue(type, agents, message, suggestion) ==
  [type |-> type, severity |-> "warning", agents |-> agents, message |-> message,
   suggestion |-> suggestion]

\* every ordered pair of distinct indices: for (j = 0; ...) skipping j = i
AllOrderedPairs(n) ==
  FlatMap([i \in 1..n |-> i],
          LAMBDA i : Filter([j \in 1..n |-> <<i, j>>], LAMBDA pr : pr[2] # i))
\* for (let i = 0; ...) for (let j = i + 1; ...): the pairs in loop order
IndexPairs(n) ==
  FlatMap([i \in 1..n |-> i], LAMBDA i : [k \in 1..(n - i) |-> <<i, i + k>>])

\* a.triggers.filter((t) => setB.has(t))
SharedTriggers(a, b) == Filter(a.triggers, LAMBDA t : t \in Range(b.triggers))

\* Math.min(setA.size, setB.size)
MinSize(a, b) ==
  LET sizeA == Cardinality(Range(a.triggers))
      sizeB == Cardinality(Range(b.triggers))
  IN IF sizeA < sizeB THEN sizeA ELSE sizeB

\* minSize > 0 && shared.length / minSize > 0.5
Overlapping(a, b) ==
  MinSize(a, b) > 0 /\ 2 * Len(SharedTriggers(a, b)) > MinSize(a, b)

detectOverlaps(agents) ==
  FlatMap(IndexPairs(Len(agents)),
    LAMBDA pr :
      LET a == agents[pr[1]]
          b == agents[pr[2]]
      IN IF Len(a.triggers) = 0 \/ Len(b.triggers) = 0 THEN <<>>
         ELSE IF Overlapping(a, b)
         THEN <<FixIssue("overlap", <<a.file, b.file>>,
                  "\"" \o a.name \o "\" and \"" \o b.name \o "\" share "
                    \o NumStr(Len(SharedTriggers(a, b))) \o " trigger words: "
                    \o Join(SharedTriggers(a, b), ", "),
                  "Differentiate triggers so each agent has a unique activation pattern")>>
         ELSE <<>>)

ACTION_VERBS ==
  <<"review", "write", "create", "build", "test", "fix", "optimize",
    "design", "manage", "audit", "deploy", "generate", "analyze",
    "check", "implement", "refactor", "debug", "document", "maintain">>

SHORT_DESCRIPTION_LIMIT == 30

\* desc.length <= 30
AtMostLimit(desc) == Len(desc) <= SHORT_DESCRIPTION_LIMIT
\* desc.length < 30
TooShort(desc) == Len(desc) < SHORT_DESCRIPTION_LIMIT

detectVagueDescriptions(agents) ==
  FlatMap(agents,
    LAMBDA agent :
      LET desc == agent.description
      IN IF TooShort(desc)
         THEN <<FixIssue("vague", <<agent.file>>,
                  "\"" \o agent.name \o "\" has a very short description ("
                    \o NumStr(Len(desc)) \o " chars)",
                  "Expand to 50+ chars describing what the agent does, when to use it, and which technologies it covers")>>
         ELSE IF ~Some(ACTION_VERBS, LAMBDA v : Includes(toLowerCase(desc), v))
         THEN <<FixIssue("vague", <<agent.file>>,
                  "\"" \o agent.name \o "\" description lacks action verbs - may cause poor routing",
                  "Start with a verb: \"Review code for...\", \"Write tests using...\", \"Build and maintain...\"")>>
         ELSE <<>>)

\* agent.name
CaseSensitiveKey(name) == name
\* agent.name.toLowerCase()
DuplicateKey(name) == toLowerCase(name)

\* the first index at which each key of byName was set: Map iteration order
GroupLeaders(agents) ==
  Filter([i \in 1..Len(agents) |-> i],
         LAMBDA i : \A j \in 1..(i - 1) :
                      DuplicateKey(agents[j].name) # DuplicateKey(agents[i].name))

\* byName.get(key)
Group(agents, i) ==
  Filter(agents, LAMBDA a : DuplicateKey(a.name) = DuplicateKey(agents[i].name))

detectDuplicates(agents) ==
  FlatMap(GroupLeaders(agents), LAMBDA i :
    With(Group(agents, i), LAMBDA group :
      LET tools == {group[k].tool : k \in 1..Len(group)}
          descriptions == {group[k].description : k \in 1..Len(group)}
      IN IF Len(group) <= 1 THEN <<>>
         ELSE IF Cardinality(tools) <= 1 THEN <<>>
         ELSE IF Cardinality(descriptions) > 1
         THEN <<FixIssue("duplicate", Map(group, LAMBDA a : a.file),
                  "Agent \"" \o group[1].name \o "\" exists in "
                    \o NumStr(Cardinality(tools)) \o " tools with different descriptions",
                  "Align descriptions across tools for consistent routing, or rename to differentiate")>>
         ELSE <<>>))

\* analyzeAgents after the scan
FixResult(found) ==
  With(FlatMap(found, LAMBDA config :
         IF ~isAgentFile(config) THEN <<>>
         ELSE IF config.filePath = "AGENTS.md" THEN parseAgentsFromAgentsMd(config)
         ELSE parseAgentFromFile(config)), LAMBDA agents :
    [agents |-> agents,
     issues |-> detectOverlaps(agents) \o detectVagueDescriptions(agents)
                  \o detectDuplicates(agents)])


(***************************************************************************)
(* Fixer: the projects analyzed and analyzeAgents                          *)
(***************************************************************************)
MaxAgentFiles == 2   \* most agent files in an analyzed project

\* an agent file as the tests write it
AgentText(name, description, body) ==
  "---\nname: " \o name \o "\ndescription: " \o description \o "\n---\n\n" \o body

ReviewerBold ==
  AgentText("Code Reviewer", "Review code for quality issues and best practices",
            "Focus on **review**, **code**, **quality**, **check**, **lint**.")
CheckerBold ==
  AgentText("Quality Checker", "Check code quality and find potential bugs",
            "Focus on **review**, **code**, **quality**, **check**, **bugs**.")
TesterBold ==
  AgentText("Test Writer", "Write comprehensive tests for the codebase",
            "Focus on **testing**, **coverage**, **assertions**, **mocks**, **review**.")
ReleaseHalf ==
  AgentText("Release Manager", "Helps with everything you need",
            "Focus on **review**, **code**, **deploys**, **releases**.")
RepeatedBold ==
  AgentText("Api Designer", "Design the API surface of every public service",
            "**api** design, **api** docs, **api** tests, **rest**, **http**.")
ApiBold ==
  AgentText("Api Builder", "Build and maintain the API gateway of the shop",
            "Focus on **api**, **graphql**, **grpc**.")
ShortWithVerb ==
  AgentText("Code Reviewer", "Reviews all the code we write",
            "# Code Reviewer\n\nTriggers: Review, code; quality,\n")
ReviewerTwin ==
  AgentText("Code Reviewer", "Check code quality and find potential bugs",
            "Focus on **bugs**.")
ReviewerOther ==
  AgentText("code reviewer", "A different description for the same agent",
            "Review code.")
ReviewerSame ==
  AgentText("CODE REVIEWER", "Review code for quality issues and best practices",
            "Review code.")
Helper == AgentText("Helper", "Helps", "A helper agent.")
PlainAgent == "# Plain Agent\r\n\r\n- notes\r\nBuild and maintain the release pipeline for us.\r\n"
UnclosedAgent == "---\nname: Broken\n\n## When to activate\n"
AgentsMdTeam ==
  "# Agents\n\n## Tech Stack\n- TypeScript\n\n## Code Reviewer\nReview code for quality issues and best practices\nFocus on **review**, **code**, **quality**.\n\n### Helper\n\n- notes\nHelps\n"
AgentsMdPair ==
  "## Quality Checker\nCheck code quality and find potential bugs\n**review** and **code**, **code** and **review**\n## \n## Api Builder\n**api**\n"

\* the agent files a project may hold
AgentFilePool ==
  {File(".claude/agents/reviewer.md", h, 0, 1) :
     h \in {ReviewerBold, RepeatedBold, ApiBold, ShortWithVerb, PlainAgent, Helper,
            UnclosedAgent}}
  \cup {File(".claude/agents/tester.md", h, 0, 1) :
          h \in {CheckerBold, TesterBold, ReleaseHalf, ReviewerTwin}}
  \cup {File(".github/agents/reviewer.agent.md", h, 0, 1) :
          h \in {ReviewerOther, ReviewerSame, ApiBold, RepeatedBold, CheckerBold}}
  \cup {File("AGENTS.md", h, 0, 1) : h \in {AgentsMdTeam, AgentsMdPair}}
  \cup {File("AGENTS.md", "# Agents\n", 11000000, 1),
        File("CLAUDE.md", "# Project\nSome rules here.", 0, 1)}

\* at most MaxAgentFiles files of the pool, one per path
AgentProjects == FileSetsUpTo(AgentFilePool, MaxAgentFiles)

InitFixer ==
  /\ project \in AgentProjects
  /\ configs = <<>>
  /\ formatIssues = <<>>
  /\ result = NoResult
  /\ valPc = "idle"
  /\ globbed = {}
  /\ globRejects = FALSE
  /\ fixResult = NoFixResult
  /\ fixPc = "start"
  /\ RecommenderIdle
  /\ AdaptersIdle
  /\ PrunerIdle
  /\ CommandsIdle

\* analyzeAgents: const configs = await scanExistingConfigs(projectRoot)
FixerScan ==
  /\ fixPc = "start"
  /\ configs' = scanExistingConfigs(ProjectFiles)
  /\ fixPc' = "scanned"
  /\ UNCHANGED <<project, formatIssues, result, valPc, globbed, globRejects,
                 fixResult, nonFixVars>>

\* analyzeAgents: the loop over configs, the detection rules, the result
AnalyzeScanned ==
  /\ fixPc = "scanned"
  /\ fixResult' = FixResult(configs)
  /\ fixPc' = "analyzed"
  /\ UNCHANGED <<project, configs, formatIssues, result, valPc, globbed, globRejects,
                 nonFixVars>>

NextFixer == FixerScan \/ AnalyzeScanned

SpecFixer == InitFixer /\ [][NextFixer]_vars

(***************************************************************************)
(* The three project tools: one of them is called on a project             *)
(***************************************************************************)
InitTools == InitValidator \/ InitPruner \/ InitFixer

NextTools == NextValidator \/ NextPruner \/ NextFixer

SpecTools == InitTools /\ [][NextTools]_vars


(***************************************************************************)
(* Claims about the fixer's detection rules                                *)
(***************************************************************************)
Analyzed == fixPc = "analyzed"

\* the issues of one type analyzeAgents returned, in order
IssuesOfType(type) == Filter(fixResult.issues, LAMBDA i : i.type = type)

\* the pairs of indices i < j of records that both have triggers, in
\* lexicographic order
TriggeredPairs(agents) ==
  LET n == Len(agents)
  IN Filter([k \in 1..(n * n) |-> <<((k - 1) \div n) + 1, ((k - 1) % n) + 1>>],
            LAMBDA pr : /\ pr[1] < pr[2]
                        /\ agents[pr[1]].triggers # <<>>
                        /\ agents[pr[2]].triggers # <<>>)

\* the overlap issue is about records a and b: it lists both files and its
\* message starts with both names
NamesPair(issue, a, b) ==
  /\ issue.agents = <<a.file, b.file>>
  /\ StartsWith(issue.message, "\"" \o a.name \o "\" and \"" \o b.name \o "\" share ")

RECURSIVE Embeds(_, _, _)
\* the issues can be assigned, in order, to distinct pairs of the list
Embeds(issues, pairs, agents) ==
  IF issues = <<>> THEN TRUE
  ELSE IF pairs = <<>> THEN FALSE
  ELSE IF NamesPair(Head(issues), agents[Head(pairs)[1]], agents[Head(pairs)[2]])
  THEN Embeds(Tail(issues), Tail(pairs), agents)
  ELSE Embeds(issues, Tail(pairs), agents)

\* C14: the overlap issues can be assigned one-to-one to unordered pairs
\* of parsed records that both have triggers: at most one issue per pair,
\* each listing the files of both records, none involving a record without
\* triggers.
C14_OverlapPerPair ==
  Analyzed =>
    /\ Embeds(IssuesOfType("overlap"), TriggeredPairs(fixResult.agents), fixResult.agents)
    /\ \A k \in 1..Len(fixResult.issues) :
         fixResult.issues[k].type = "overlap" => Len(fixResult.issues[k].agents) = 2

\* a Claude agent and AGENTS.md were analyzed: three records, the one
\* without triggers in no issue, the two others in one overlap issue
C14_Witness ==
  /\ Analyzed
  /\ Len(fixResult.agents) = 3
  /\ fixResult.agents[3].triggers = <<>>
  /\ Len(IssuesOfType("overlap")) = 1
  /\ IssuesOfType("overlap")[1].agents = <<".claude/agents/reviewer.md", "AGENTS.md">>

\* |A n B| / min(|A|, |B|) > 0.5 on the trigger sets
SetRatioAboveHalf(a, b) ==
  LET A == Range(a.triggers)
      B == Range(b.triggers)
      least == IF Cardinality(A) < Cardinality(B) THEN Cardinality(A) ELSE Cardinality(B)
  IN 2 * Cardinality(A \cap B) > least

\* C15: a pair of records with triggers is flagged as overlapping exactly
\* if the shared part of the two trigger sets is more than half of the
\* smaller set, whichever record was parsed first.
C15_OverlapRatio ==
  Analyzed =>
    LET agents == fixResult.agents
        flagged == Filter(TriggeredPairs(agents),
                          LAMBDA pr : SetRatioAboveHalf(agents[pr[1]], agents[pr[2]]))
        overlaps == IssuesOfType("overlap")
    IN /\ Len(overlaps) = Len(flagged)
       /\ \A k \in 1..Len(flagged) :
            k <= Len(overlaps) =>
              NamesPair(overlaps[k], agents[flagged[k][1]], agents[flagged[k][2]])

\* the description contains one of the listed verbs, whatever the case
HasActionVerb(desc) ==
  \E k \in 1..Len(ACTION_VERBS) : Includes(toLowerCase(desc), ACTION_VERBS[k])

\* C16: the vague issues are, in order, one per record whose description
\* is shorter than 30 characters (short-description message, whatever
\* verbs it has) or has 30 or more characters and none of the verbs
\* (action-verb message); no other record has one.
C16_VagueDescriptions ==
  Analyzed =>
    LET agents == fixResult.agents
        vague == IssuesOfType("vague")
        flagged == Filter([i \in 1..Len(agents) |-> i],
                          LAMBDA i : \/ Len(agents[i].description) < 30
                                     \/ ~HasActionVerb(agents[i].description))
    IN /\ Len(vague) = Len(flagged)
       /\ \A k \in 1..Len(flagged) :
            k <= Len(vague) =>
              LET a == agents[flagged[k]]
              IN /\ vague[k].agents = <<a.file>>
                 /\ StartsWith(vague[k].message, "\"" \o a.name \o "\" ")
                 /\ Len(a.description) < 30
                      => Includes(vague[k].message, "has a very short description")
                 /\ Len(a.description) >= 30
                      => Includes(vague[k].message, "description lacks action verbs")

\* a description of 29 characters with a verb and one of 30 characters
\* without were analyzed: the first short, the second lacking verbs
C16_Witness ==
  /\ Analyzed
  /\ Len(fixResult.agents) = 2
  /\ Len(fixResult.agents[1].description) = 29
  /\ HasActionVerb(fixResult.agents[1].description)
  /\ Len(fixResult.agents[2].description) = 30
  /\ Len(IssuesOfType("vague")) = 2
  /\ Includes(IssuesOfType("vague")[1].message, "very short description (29 chars)")
  /\ Includes(IssuesOfType("vague")[2].message, "lacks action verbs")

\* the records sharing the case-insensitive name of record i
SameName(agents, i) ==
  Filter(agents, LAMBDA a : toLowerCase(a.name) = toLowerCase(agents[i].name))

\* C17: the duplicate issues are, in order of first appearance, one per
\* group of records sharing a case-insensitive name that spans more than
\* one tool and has more than one distinct description; each lists the
\* files of the group.
C17_Duplicates ==
  Analyzed =>
    LET agents == fixResult.agents
        duplicates == IssuesOfType("duplicate")
        flagged ==
          Filter([i \in 1..Len(agents) |-> i],
            LAMBDA i :
              /\ \A j \in 1..(i - 1) : toLowerCase(agents[j].name) # toLowerCase(agents[i].name)
              /\ Cardinality({a.tool : a \in Range(SameName(agents, i))}) > 1
              /\ Cardinality({a.description : a \in Range(SameName(agents, i))}) > 1)
    IN /\ Len(duplicates) = Len(flagged)
       /\ \A k \in 1..Len(flagged) :
            k <= Len(duplicates) =>
              duplicates[k].agents
                = [m \in 1..Len(SameName(agents, flagged[k])) |->
                     SameName(agents, flagged[k])[m].file]

\* a Claude and a Copilot agent whose names differ in case only and whose
\* descriptions differ were analyzed: one duplicate issue naming both
C17_Witness ==
  /\ Analyzed
  /\ Len(fixResult.agents) = 2
  /\ fixResult.agents[1].name # fixResult.agents[2].name
  /\ fixResult.agents[1].tool = "claude"
  /\ fixResult.agents[2].tool = "copilot"
  /\ Len(IssuesOfType("duplicate")) = 1
  /\ IssuesOfType("duplicate")[1].agents
       = <<".claude/agents/reviewer.md", ".github/agents/reviewer.agent.md">>


(***************************************************************************)
(* Claim about the three tools as a whole                                  *)
(***************************************************************************)
\* C20: validateConfigs, findPruneTargets and analyzeAgents never end in
\* an exception, whatever the scanned files hold, and their result covers
\* every scanned file: each file has exactly the issues of its own checks,
\* each file its own prune target, each single-agent file its record.
C20_NeverThrows ==
  /\ valPc # "threw"
  /\ prPc # "threw"
  /\ fixPc # "threw"
  /\ Validated =>
       /\ result.configsFound = Len(configs)
       /\ \A i \in 1..Len(configs) :
            Len(ErrorsFor(configs[i].filePath)) + Len(WarningsFor(configs[i].filePath))
              = Len(ToolValidator(configs[i]))
                  + Len(validateGlobPatterns(configs[i], ProjectFiles))
  /\ Pruned =>
       /\ pruneResult.configsScanned = Len(configs)
       /\ \A i \in 1..Len(configs) :
            TargetsFor(configs[i].filePath) = CheckConfig(configs[i], ProjectFiles)
  /\ Analyzed =>
       \A i \in 1..Len(configs) :
         (isAgentFile(configs[i]) /\ configs[i].filePath # "AGENTS.md") =>
           \E k \in 1..Len(fixResult.agents) :
             fixResult.agents[k].file = configs[i].filePath

\* glob threw on the malformed pattern of a rule file; the file scanned
\* after it was validated all the same
C20_Witness ==
  /\ Validated
  /\ globRejects
  /\ Len(configs) = 2
  /\ configs[1].content.head = MdcMalformed
  /\ Len(WarningsFor(configs[1].filePath)) = 1
  /\ Includes(WarningsFor(configs[1].filePath)[1].message, "Invalid glob pattern")
  /\ Len(ErrorsFor(configs[2].filePath)) + Len(WarningsFor(configs[2].filePath)) > 0

(***************************************************************************)
(* Claims about what the adapters emit                                     *)
(***************************************************************************)
\* the text c stands in the text t
TextIncludes(t, c) ==
  \E i \in 0..(Len(t) - Len(c)) : SubSeq(t, i + 1, i + Len(c)) = c

\* the adapters that emit one consolidated artifact, and its path
Consolidated ==
  [claude |-> "CLAUDE.md", amp |-> "AGENTS.md", windsurf |-> ".windsurfrules"]

\* the files among fs whose path is p
AtPath(fs, p) == Filter(fs, LAMBDA f : f.path = p)

\* C22: the consolidated artifact of Claude, Amp and Windsurf holds, as
\* assembled and before the size step, the content of every rule of the
\* recommendations handed to generate.
C22_ConsolidatedHoldsEveryRule ==
  (adPc # "input" /\ adTool \in DOMAIN Consolidated) =>
    /\ Len(AtPath(assembled, Consolidated[adTool])) = 1
    /\ \A i \in 1..Len(adRec.rules) :
         TextIncludes(AtPath(assembled, Consolidated[adTool])[1].content,
                      adRec.rules[i].content)

\* the files among fs whose path lies under dir and ends with suffix
AgentFiles(fs, dir, suffix) ==
  Filter(fs, LAMBDA f : StartsWith(f.path, dir) /\ EndsWith(f.path, suffix))

\* where Claude and Copilot put the file of an agent
AgentFileDir == [claude |-> ".claude/agents/", copilot |-> ".github/agents/"]
AgentFileSuffix == [claude |-> ".md", copilot |-> ".agent.md"]

\* C23: Claude and Copilot return one agent file per recommended agent, at
\* .claude/agents/<id>.md and .github/agents/<id>.agent.md, and no two
\* returned files share a path.
C23_OneFilePerAgent ==
  (adPc = "generated" /\ adTool \in DOMAIN AgentFileDir) =>
    /\ LET agentFiles == AgentFiles(adOut.files, AgentFileDir[adTool], AgentFileSuffix[adTool])
       IN /\ Len(agentFiles) = Len(adRec.agents)
          /\ \A i \in 1..Len(agentFiles) :
               agentFiles[i].path
                 = AgentFileDir[adTool] \o adRec.agents[i].id \o AgentFileSuffix[adTool]
    /\ \A i, j \in 1..Len(adOut.files) :
         adOut.files[i].path = adOut.files[j].path => i = j

\* the estimated tokens of a text: Math.ceil(length / CHARS_PER_TOKEN)
TextTokens(t) == (TLen(t) + CHARS_PER_TOKEN - 1) \div CHARS_PER_TOKEN

\* the estimated tokens of the files, file by file
SumTokens(files) ==
  LET f[i \in 0..Len(files)] ==
        IF i = 0 THEN 0 ELSE f[i - 1] + TextTokens(files[i].content)
  IN f[Len(files)]

\* C24: totalSize is the size of the returned contents in the declared
\* sizeUnit: the number of characters for "chars", the estimated tokens
\* (characters / 4 rounded up, per file or over all files) for "tokens".
C24_TotalSizeInDeclaredUnit ==
  (adPc = "generated") =>
    /\ adOut.sizeUnit = "chars" => adOut.totalSize = SumChars(adOut.files)
    /\ adOut.sizeUnit = "tokens" =>
         adOut.totalSize \in
           {SumTokens(adOut.files),
            (SumChars(adOut.files) + CHARS_PER_TOKEN - 1) \div CHARS_PER_TOKEN}

(***************************************************************************)
(* Claims about the scan for existing config files                         *)
(***************************************************************************)
\* the tools in the order the claim gives them
ToolOrder == <<"claude", "cursor", "codex", "copilot", "windsurf", "gemini", "amp">>

\* whether one of the tool's patterns matches the path
ToolMatches(tool, path) ==
  \E i \in 1..Len(CONFIG_PATTERNS) :
    CONFIG_PATTERNS[i][1] = tool /\ GlobMatches(CONFIG_PATTERNS[i][2], path)

\* the first tool of the order with a pattern that matches the path
FirstToolFor(path) ==
  ToolOrder[CHOOSE t \in 1..Len(ToolOrder) :
              /\ ToolMatches(ToolOrder[t], path)
              /\ \A u \in 1..(t - 1) : ~ToolMatches(ToolOrder[u], path)]

\* C25: scanExistingConfigs returns each relative path at most once, tagged
\* with the first tool in the order claude, cursor, codex, copilot, windsurf,
\* gemini, amp that has a pattern matching it; a root AGENTS.md is tagged
\* cursor, never codex or amp.
C25_FirstToolWins ==
  (valPc = "scanned") =>
    /\ \A j, k \in 1..Len(configs) :
         configs[j].filePath = configs[k].filePath => j = k
    /\ \A k \in 1..Len(configs) :
         /\ \E t \in 1..Len(ToolOrder) : ToolMatches(ToolOrder[t], configs[k].filePath)
         /\ configs[k].tool = FirstToolFor(configs[k].filePath)
         /\ configs[k].filePath = "AGENTS.md" => configs[k].tool = "cursor"

\* a scanned project with a root AGENTS.md (patterns of cursor, codex and amp
\* match it) and a nested one (only codex's **/AGENTS.md matches)
C25_Witness ==
  /\ valPc = "scanned"
  /\ \E k \in 1..Len(configs) :
       configs[k].filePath = "AGENTS.md" /\ configs[k].tool = "cursor"
  /\ \E k \in 1..Len(configs) :
       configs[k].filePath = "packages/api/AGENTS.md" /\ configs[k].tool = "codex"

(***************************************************************************)
(* The commands that write to the project: scanCommand                     *)
(***************************************************************************)
\* the targets in the opposite order
ReversedTargets == <<"amp", "gemini", "windsurf", "copilot", "codex", "cursor", "claude">>

ALL_TARGETS == <<"claude", "cursor", "codex", "copilot", "windsurf", "gemini", "amp">>

\* getAdapter(target).generate(scan, recommendations)
Generate(tool, s, rec) ==
  CASE tool = "claude" ->
         With(ClaudeFiles(s, rec), LAMBDA files :
           AdapterOutput("claude", files, SumBytes(files), "tokens", <<>>))
    [] tool = "cursor" ->
         With(CursorFiles(s, rec), LAMBDA files :
           AdapterOutput("cursor", files, SumChars(files), "chars", <<>>))
    [] tool = "codex" -> With(CodexFiles(s, rec), CodexOutput)
    [] tool = "copilot" -> With(CopilotFiles(s, rec), CopilotOutput)
    [] tool = "windsurf" -> With(generateWindsurfRules(s, rec), WindsurfOutput)
    [] tool = "gemini" ->
         With(GeminiFiles(s, rec), LAMBDA files :
           AdapterOutput("gemini", files, SumBytes(files), "tokens", <<>>))
    [] tool = "amp" ->
         With(AmpFiles(s, rec), LAMBDA files :
           AdapterOutput("amp", files, SumBytes(files), "tokens", <<>>))

\* targets.map((target) => getAdapter(target).generate(scan, recommendations))
generateConfigs(ts, s, rec) == Map(ts, LAMBDA t : Generate(t, s, rec))

\* a stat call that finds nothing at any path
NeverExists(d, p) == FALSE

\* fs.statSync(filePath).isFile(), false when statSync throws
fileExists(d, p) == p \in DOMAIN d

\* fs.mkdirSync(dirname, { recursive: true }); fs.writeFileSync(filePath, content)
writeFileWithDirs(d, p, content) ==
  [q \in DOMAIN d \cup {p} |-> IF q = p THEN content ELSE d[q]]

\* what the user had written into a file before the command ran
UserContent == Lit("# mine")

\* the project before the command runs: which of these files exist
Disks ==
  {[p \in S |-> UserContent] : S \in SUBSET {"AGENTS.md", ".cursor/rules/git-conventions.mdc"}}

\* the snapshots and recommendation sets the commands work on
CommandScans == {s \in AdapterScans : s.frameworks = <<>>}
CommandRecs ==
  [agents : {<<>>, SubSeq(AgentPool, 1, 1)},
   rules : {<<>>, SubSeq(RulePool, 1, 1), SubSeq(RulePool, 2, 2)}]

\* ScanOptions: --target, --force, --dry-run
ScanOptionSets ==
  [target : ToolTargets \cup {"all"}, force : BOOLEAN, dryRun : BOOLEAN]

\* what a command did with the file it came to
Step(op, at, path, content) == [op |-> op, at |-> at, path |-> path, content |-> content]

\* the file the two loops stand at
AtFile == /\ pos[1] <= Len(outputs)
          /\ pos[2] <= Len(outputs[pos[1]].files)
CurrentFile == outputs[pos[1]].files[pos[2]]

\* runScan and runRecommendations have returned
InitScanCommand ==
  /\ cmdScan \in CommandScans
  /\ offered = NoRecommendations
  /\ recommendations \in CommandRecs
  /\ options \in ScanOptionSets
  /\ cmdTargets = <<>>
  /\ confirmAction = "none"
  /\ outputs = <<>>
  /\ pos = <<0, 0>>
  /\ disk \in Disks
  /\ fsLog = <<>>
  /\ cmdPc = "scan:start"
  /\ RecommenderIdle
  /\ AdaptersIdle
  /\ ValidatorIdle
  /\ PrunerIdle
  /\ FixerIdle

\* const targets = options.target === "all" ? [...ALL_TARGETS] : [options.target];
\* const outputs = generateConfigs(targets, scan, recommendations)
ScanGenerateConfigs ==
  /\ cmdPc = "scan:start"
  /\ cmdTargets' = (IF options.target = "all" THEN ALL_TARGETS ELSE <<options.target>>)
  /\ outputs' = generateConfigs(cmdTargets', cmdScan, recommendations)
  /\ pos' = <<1, 1>>
  /\ cmdPc' = "scan:files"
  /\ UNCHANGED <<cmdScan, offered, recommendations, options, confirmAction, disk,
                 fsLog, nonCmdVars>>

\* if (!options.force && fileExists(fullPath) && !options.dryRun)
ScanSkips == ~options.force /\ fileExists(disk, CurrentFile.path) /\ ~options.dryRun

\* one pass of the inner loop has handled the file at pos
FileHandled(op, d) ==
  /\ fsLog' = Append(fsLog, Step(op, pos, CurrentFile.path, CurrentFile.content))
  /\ disk' = d
  /\ pos' = <<pos[1], pos[2] + 1>>
  /\ UNCHANGED <<cmdScan, offered, recommendations, options, cmdTargets,
                 confirmAction, outputs, cmdPc, nonCmdVars>>

\* log.warn("already exists"); continue
ScanSkipExisting ==
  /\ cmdPc = "scan:files" /\ AtFile
  /\ ScanSkips
  /\ FileHandled("skip", disk)

\* log.info("[dry-run] ..."); totalFiles++
ScanDryRun ==
  /\ cmdPc = "scan:files" /\ AtFile
  /\ ~ScanSkips /\ options.dryRun
  /\ FileHandled("dry-run", disk)

\* writeFileWithDirs(fullPath, file.content); totalFiles++
ScanWrite ==
  /\ cmdPc = "scan:files" /\ AtFile
  /\ ~ScanSkips /\ ~options.dryRun
  /\ FileHandled("write", writeFileWithDirs(disk, CurrentFile.path, CurrentFile.content))

\* the inner loop is through with one output (its warnings are printed)
NextOutput(at) ==
  /\ cmdPc = at
  /\ pos[1] <= Len(outputs) /\ pos[2] > Len(outputs[pos[1]].files)
  /\ pos' = <<pos[1] + 1, 1>>
  /\ UNCHANGED <<cmdScan, offered, recommendations, options, cmdTargets,
                 confirmAction, outputs, disk, fsLog, cmdPc, nonCmdVars>>

\* the outer loop is through: the summary is printed and the command returns
LoopsDone(at, done) ==
  /\ cmdPc = at
  /\ pos[1] > Len(outputs)
  /\ cmdPc' = done
  /\ UNCHANGED <<cmdScan, offered, recommendations, options, cmdTargets,
                 confirmAction, outputs, pos, disk, fsLog, nonCmdVars>>

ScanNextOutput == NextOutput("scan:files")
ScanSummary == LoopsDone("scan:files", "scan:done")

NextScanCommand ==
  \/ ScanGenerateConfigs \/ ScanSkipExisting \/ ScanDryRun \/ ScanWrite
  \/ ScanNextOutput \/ ScanSummary

SpecScanCommand == InitScanCommand /\ [][NextScanCommand]_vars

(***************************************************************************)
(* Claims about scanCommand                                                *)
(***************************************************************************)
\* C21: scanCommand with --dry-run writes no file to the project; without
\* --force and without --dry-run it never writes to a path at which a file
\* already exists: every file there is keeps its content.
C21_DryRunAndNoForceKeepFiles ==
  [][ /\ options.dryRun => disk' = disk
      /\ (~options.force /\ ~options.dryRun) =>
           \A p \in DOMAIN disk : p \in DOMAIN disk' /\ disk'[p] = disk[p] ]_vars

\* a run without --force and --dry-run that came to a path the user had a
\* file at, left it alone, and wrote another file
C21_Witness ==
  /\ cmdPc = "scan:done" /\ ~options.force /\ ~options.dryRun
  /\ \E i, j \in 1..Len(fsLog) :
       /\ fsLog[i].op = "skip"
       /\ disk[fsLog[i].path] = UserContent
       /\ fsLog[i].content # UserContent
       /\ fsLog[j].op = "write"

\* the positions <<output, file>> of the generated files with this path
Emitters(p) ==
  {at \in UNION {{<<o, f>> : f \in 1..Len(outputs[o].files)} : o \in 1..Len(outputs)} :
     outputs[at[1]].files[at[2]].path = p}

\* target order, then file order
Before(a, b) == a[1] < b[1] \/ (a[1] = b[1] /\ a[2] < b[2])
FirstOf(S) == CHOOSE a \in S : \A b \in S \ {a} : Before(a, b)
LastOf(S) == CHOOSE a \in S : \A b \in S \ {a} : Before(b, a)

WritesOf(p) == {i \in 1..Len(fsLog) : fsLog[i].op = "write" /\ fsLog[i].path = p}

\* C28: in one scanCommand run over several targets whose adapters emit the
\* same relative path, the files are handled in target order then file order;
\* without --force and --dry-run the path is written at most once, with the
\* content of the first target that emits it, and the later artifacts for it
\* are skipped; with --force the content left on disk is that of the last
\* target that emits it (AGENTS.md: first cursor, last amp).
C28_FirstWinsUnlessForced ==
  (cmdPc = "scan:done" /\ ~options.dryRun) =>
    /\ \A i, j \in 1..Len(fsLog) : i < j => Before(fsLog[i].at, fsLog[j].at)
    /\ \A i \in 1..Len(fsLog) :
         With(Emitters(fsLog[i].path), LAMBDA E :
           /\ fsLog[i].at \in E
           /\ {fsLog[j].at : j \in 1..Len(fsLog)} \cap E = E
           /\ ~options.force =>
                /\ Cardinality(WritesOf(fsLog[i].path)) <= 1
                /\ fsLog[i].op = "write" =>
                     /\ fsLog[i].at = FirstOf(E)
                     /\ disk[fsLog[i].path] = outputs[FirstOf(E)[1]].files[FirstOf(E)[2]].content
                /\ fsLog[i].at # FirstOf(E) => fsLog[i].op = "skip"
           /\ options.force =>
                disk[fsLog[i].path] = outputs[LastOf(E)[1]].files[LastOf(E)[2]].content)
    /\ (options.target = "all" /\ Len(recommendations.agents) > 0) =>
         /\ (~options.force /\ WritesOf("AGENTS.md") # {}) =>
              disk["AGENTS.md"] = CursorAgentsMd(cmdScan, recommendations).content
         /\ options.force =>
              disk["AGENTS.md"] = AmpAgentsMd(cmdScan, recommendations).content

\* a run over all targets with an agent, into a project without AGENTS.md:
\* cursor's AGENTS.md was written, codex's and amp's were skipped, and the
\* contents of the two differ
C28_Witness ==
  /\ cmdPc = "scan:done" /\ options.target = "all"
  /\ ~options.force /\ ~options.dryRun
  /\ Len(recommendations.agents) > 0
  /\ Cardinality(Emitters("AGENTS.md")) = 3
  /\ Cardinality(WritesOf("AGENTS.md")) = 1
  /\ disk["AGENTS.md"] = CursorAgentsMd(cmdScan, recommendations).content
  /\ disk["AGENTS.md"] # AmpAgentsMd(cmdScan, recommendations).content
  /\ \E i \in 1..Len(fsLog) :
       fsLog[i].op = "skip" /\ fsLog[i].path = "AGENTS.md" /\ outputs[fsLog[i].at[1]].tool = "amp"

(***************************************************************************)
(* The commands that write to the project: wizardCommand                   *)
(***************************************************************************)
\* what p.multiselect may return for the tools prompt (required: true): the
\* values in the order the user toggled them
ToolPicks ==
  {<<"claude">>, <<"cursor", "amp">>, <<"amp", "cursor">>, <<"copilot", "windsurf">>}

\* all.filter((a) => picked.includes(a.id))
Picked(all, ids) == Filter(all, LAMBDA a : a.id \in ids)
IdsOf(all) == {all[i].id : i \in 1..Len(all)}

\* a confirmation that is never taken for a dry run
NeverDryRun(action) == FALSE

\* const isDryRun = confirmAction === "dry-run"
isDryRun(action) == action = "dry-run"
\* const skipExisting = confirmAction === "write-safe"
skipExisting(action) == action = "write-safe"

\* the scan has returned and the stack is shown; recommendAgents(scan) and
\* recommendRules(scan) give allAgents and allRules
InitWizard ==
  /\ cmdScan \in CommandScans
  /\ offered \in CommandRecs
  /\ recommendations = NoRecommendations
  /\ options = NoOptions
  /\ cmdTargets = <<>>
  /\ confirmAction = "none"
  /\ outputs = <<>>
  /\ pos = <<0, 0>>
  /\ disk \in Disks
  /\ fsLog = <<>>
  /\ cmdPc = "wizard:tools"
  /\ RecommenderIdle
  /\ AdaptersIdle
  /\ ValidatorIdle
  /\ PrunerIdle
  /\ FixerIdle

\* one prompt of the wizard is answered
Answered(ts, rec, next) ==
  /\ cmdTargets' = ts
  /\ recommendations' = rec
  /\ cmdPc' = next
  /\ UNCHANGED <<cmdScan, offered, options, confirmAction, outputs, pos, disk,
                 fsLog, nonCmdVars>>

\* p.cancel("Setup cancelled."); process.exit(0)
Cancelled == Answered(cmdTargets, recommendations, "wizard:exited")

\* const selectedTools = await p.multiselect(...)
WizardPickTools ==
  /\ cmdPc = "wizard:tools"
  /\ \E ts \in ToolPicks : Answered(ts, recommendations, "wizard:agents")

WizardCancelAtTools == cmdPc = "wizard:tools" /\ Cancelled

\* the agent prompt, shown if allAgents.length > 0
WizardPickAgents ==
  /\ cmdPc = "wizard:agents" /\ Len(offered.agents) > 0
  /\ \E ids \in SUBSET IdsOf(offered.agents) :
       Answered(cmdTargets,
                [recommendations EXCEPT !.agents = Picked(offered.agents, ids)],
                "wizard:rules")

WizardCancelAtAgents ==
  /\ cmdPc = "wizard:agents" /\ Len(offered.agents) > 0
  /\ Cancelled

\* no agent to choose from: selectedAgents stays []
WizardNoAgents ==
  /\ cmdPc = "wizard:agents" /\ Len(offered.agents) = 0
  /\ Answered(cmdTargets, recommendations, "wizard:rules")

\* the rule prompt, shown if allRules.length > 0
WizardPickRules ==
  /\ cmdPc = "wizard:rules" /\ Len(offered.rules) > 0
  /\ \E ids \in SUBSET IdsOf(offered.rules) :
       Answered(cmdTargets,
                [recommendations EXCEPT !.rules = Picked(offered.rules, ids)],
                "wizard:confirm")

WizardCancelAtRules ==
  /\ cmdPc = "wizard:rules" /\ Len(offered.rules) > 0
  /\ Cancelled

WizardNoRules ==
  /\ cmdPc = "wizard:rules" /\ Len(offered.rules) = 0
  /\ Answered(cmdTargets, recommendations, "wizard:confirm")

\* generateConfigs(tools, scan, recommendations), the preview, and the
\* answer to the last prompt
Previewed(action, next) ==
  /\ cmdPc = "wizard:confirm"
  /\ outputs' = generateConfigs(cmdTargets, cmdScan, recommendations)
  /\ confirmAction' = action
  /\ pos' = <<1, 1>>
  /\ cmdPc' = next
  /\ UNCHANGED <<cmdScan, offered, recommendations, options, cmdTargets, disk,
                 fsLog, nonCmdVars>>

WizardConfirm ==
  \E action \in {"write", "write-safe", "dry-run"} : Previewed(action, "wizard:files")

\* if (p.isCancel(confirmAction) || confirmAction === "cancel") process.exit(0)
WizardCancelAtConfirm ==
  \E action \in {"cancel", "isCancel"} : Previewed(action, "wizard:exited")

\* if (skipExisting && fileExists(fullPath)) { skipped++; continue; }
WizardSkips == skipExisting(confirmAction) /\ fileExists(disk, CurrentFile.path)

WizardSkipExisting ==
  /\ cmdPc = "wizard:files" /\ AtFile
  /\ WizardSkips
  /\ FileHandled("skip", disk)

\* the dry run: writtenPaths.push(file.path); written++
WizardDryRun ==
  /\ cmdPc = "wizard:files" /\ AtFile
  /\ ~WizardSkips /\ isDryRun(confirmAction)
  /\ FileHandled("dry-run", disk)

\* if (!isDryRun) writeFileWithDirs(fullPath, file.content)
WizardWrite ==
  /\ cmdPc = "wizard:files" /\ AtFile
  /\ ~WizardSkips /\ ~isDryRun(confirmAction)
  /\ FileHandled("write", writeFileWithDirs(disk, CurrentFile.path, CurrentFile.content))

WizardNextOutput == NextOutput("wizard:files")
WizardDone == LoopsDone("wizard:files", "wizard:done")

NextWizard ==
  \/ WizardPickTools \/ WizardCancelAtTools
  \/ WizardPickAgents \/ WizardCancelAtAgents \/ WizardNoAgents
  \/ WizardPickRules \/ WizardCancelAtRules \/ WizardNoRules
  \/ WizardConfirm \/ WizardCancelAtConfirm
  \/ WizardSkipExisting \/ WizardDryRun \/ WizardWrite
  \/ WizardNextOutput \/ WizardDone

SpecWizard == InitWizard /\ [][NextWizard]_vars

(***************************************************************************)
(* Claims about wizardCommand                                              *)
(***************************************************************************)
\* C29: wizardCommand writes files to the project only after the final
\* confirmation prompt returned "write" or "write-safe": while no answer was
\* given, after a cancel at the tool, agent, rule or confirmation prompt, and
\* after "dry-run", no file is created or modified.
C29_WritesOnlyAfterConfirmation ==
  [][ (disk' # disk \/ \E i \in 1..Len(fsLog') : fsLog'[i].op = "write")
        => confirmAction \in {"write", "write-safe"} ]_vars

\* a dry run that went through every generated file, AGENTS.md among them,
\* in a project that has no AGENTS.md before or after
C29_Witness ==
  /\ cmdPc = "wizard:done" /\ confirmAction = "dry-run"
  /\ \E i \in 1..Len(fsLog) : fsLog[i].path = "AGENTS.md" /\ fsLog[i].op = "dry-run"
  /\ "AGENTS.md" \notin DOMAIN disk

(***************************************************************************)
(* The commands that write to the project: pruneCommand                    *)
(***************************************************************************)
\* PruneOptions: --dry-run, --days
PruneOptionSets == [dryRun : BOOLEAN, days : {30, 7}]

InitPruneCommand ==
  /\ project \in Projects
  /\ configs = <<>>
  /\ formatIssues = <<>>
  /\ result = NoResult
  /\ valPc = "idle"
  /\ globbed = {}
  /\ globRejects \in BOOLEAN
  /\ pruneResult = NoPruneResult
  /\ prPc = "start"
  /\ cmdScan = "none"
  /\ offered = NoRecommendations
  /\ recommendations = NoRecommendations
  /\ options \in PruneOptionSets
  /\ cmdTargets = <<>>
  /\ confirmAction = "none"
  /\ outputs = <<>>
  /\ pos = <<0, 0>>
  /\ disk = <<>>
  /\ fsLog = <<>>
  /\ cmdPc = "prune:start"
  /\ RecommenderIdle
  /\ AdaptersIdle
  /\ FixerIdle

\* one step of pruneCommand after findPruneTargets has returned
PruneStep(files, log, at, next) ==
  /\ project' = files
  /\ fsLog' = log
  /\ pos' = at
  /\ cmdPc' = next
  /\ UNCHANGED <<configs, formatIssues, result, valPc, globbed, globRejects,
                 prVars, cmdScan, offered, recommendations, options, cmdTargets,
                 confirmAction, outputs, disk, recVars, adVars, fixVars>>

\* if (result.pruneTargets.length === 0) { ...; return; }
PruneNothing ==
  /\ cmdPc = "prune:start" /\ prPc = "pruned"
  /\ Len(pruneResult.pruneTargets) = 0
  /\ PruneStep(project, fsLog, pos, "prune:done")

\* if (options.dryRun) log.info("Dry run - no files were deleted.")
PruneDryRun ==
  /\ cmdPc = "prune:start" /\ prPc = "pruned"
  /\ Len(pruneResult.pruneTargets) > 0 /\ options.dryRun
  /\ PruneStep(project, fsLog, pos, "prune:done")

\* the candidates are listed; the loop over result.pruneTargets begins
PruneReport ==
  /\ cmdPc = "prune:start" /\ prPc = "pruned"
  /\ Len(pruneResult.pruneTargets) > 0 /\ ~options.dryRun
  /\ PruneStep(project, fsLog, <<1, 0>>, "prune:unlink")

\* a loop that ends at the first failed deletion
GiveUp(i) == Len(pruneResult.pruneTargets) + 1

\* catch { failedCount++; log.error(...) }: the loop goes on with the next target
AfterFailure(i) == i + 1

AtTarget == cmdPc = "prune:unlink" /\ pos[1] <= Len(pruneResult.pruneTargets)
CurrentTarget == pruneResult.pruneTargets[pos[1]]

\* fs.unlinkSync(fullPath); deleted++
PruneUnlink ==
  /\ AtTarget
  /\ PruneStep({f \in project : f.path # CurrentTarget.file},
               Append(fsLog, Step("unlink", pos, CurrentTarget.file, <<>>)),
               <<pos[1] + 1, 0>>, "prune:unlink")

\* fs.unlinkSync(fullPath) throws
PruneUnlinkFails ==
  /\ AtTarget
  /\ PruneStep(project,
               Append(fsLog, Step("unlink-failed", pos, CurrentTarget.file, <<>>)),
               <<AfterFailure(pos[1]), 0>>, "prune:unlink")

\* the loop is through: the counts are printed
PruneSummary ==
  /\ cmdPc = "prune:unlink" /\ pos[1] > Len(pruneResult.pruneTargets)
  /\ PruneStep(project, fsLog, pos, "prune:done")

NextPruneCommand ==
  \/ PrunerScan \/ PruneScanned
  \/ PruneNothing \/ PruneDryRun \/ PruneReport
  \/ PruneUnlink \/ PruneUnlinkFails \/ PruneSummary

SpecPruneCommand == InitPruneCommand /\ [][NextPruneCommand]_vars

(***************************************************************************)
(* Claims about pruneCommand                                               *)
(***************************************************************************)
\* C30: pruneCommand with dryRun set deletes no file; without dryRun it
\* attempts to delete each file reported by findPruneTargets in that run
\* exactly once and no other file, and a failed deletion of one target does
\* not prevent the attempts on the remaining targets.
C30_DeletesExactlyTheTargets ==
  /\ [](options.dryRun => fsLog = <<>>)
  /\ []((cmdPc = "prune:done" /\ ~options.dryRun) =>
          /\ Len(fsLog) = Len(pruneResult.pruneTargets)
          /\ \A i \in 1..Len(fsLog) :
               /\ fsLog[i].op \in {"unlink", "unlink-failed"}
               /\ fsLog[i].path = pruneResult.pruneTargets[i].file
          /\ \A i, j \in 1..Len(fsLog) : fsLog[i].path = fsLog[j].path => i = j)
  /\ [][ /\ project' \subseteq project
         /\ options.dryRun => project' = project
         /\ \A f \in project \ project' : AtTarget /\ f.path = CurrentTarget.file ]_vars

\* a run with two targets: the deletion of the first failed, the second
\* file was deleted and the first is still there
C30_Witness ==
  /\ cmdPc = "prune:done" /\ ~options.dryRun
  /\ Len(fsLog) = 2
  /\ fsLog[1].op = "unlink-failed" /\ fsLog[2].op = "unlink"
  /\ \E f \in project : f.path = fsLog[1].path
  /\ \A f \in project : f.path # fsLog[2].path

(***************************************************************************)
(* Generated files under the validator and the fixer: the recommendations  *)
(* of a snapshot are handed to one adapter, its files are written to a     *)
(* project that holds no other config file, and validateConfigs or         *)
(* analyzeAgents is called on that project                                 *)
(***************************************************************************)
\* the text of a content: the characters of its slices, one after the other
Render(t) ==
  LET f[i \in 0..Len(t)] ==
        IF i = 0 THEN ""
        ELSE f[i - 1] \o SubSeq(t[i].src, t[i].from + 1, t[i].from + t[i].len)
  IN f[Len(t)]

\* the recommendations with each text as a content of one slice
AsTexts(agents, rules) ==
  [agents |-> Map(agents, LAMBDA a : [a EXCEPT !.description = Lit(a.description)]),
   rules |-> Map(rules, LAMBDA r : [r EXCEPT !.content = Lit(r.content)])]

\* writeFileWithDirs(fullPath, file.content) for every file of the outputs
\* into a project without config files
WrittenFiles(outs) ==
  UNION {{File(outs[o].files[f].path, Render(outs[o].files[f].content), 0, 1)
            : f \in 1..Len(outs[o].files)} : o \in 1..Len(outs)}

\* the adapters whose files the validator has a structural check for
CheckedTools == {"claude", "cursor", "copilot", "windsurf", "amp"}

\* the snapshots the recommendations are made from
GeneratorScans ==
  {s \in Snapshots :
     /\ s.missing = {} /\ s.totalFiles = 51 /\ s.significantPaths = <<>>
     /\ s.frameworks \in {<<>>, <<"React">>, <<"Express">>, <<"Next.js">>}
     /\ (s.testing = <<>>) = (s.styling = <<>>)
     /\ (s.database = <<>>) = (s.deployment = <<>>)
     /\ (s.testing = <<>>) = (s.database = <<>>)}

InitGenerator ==
  /\ InitRecommender
  /\ scan \in GeneratorScans

\* scanCommand on an empty project: generateConfigs([target], scan,
\* recommendations) and the write of every file
WriteGenerated ==
  /\ pc = "done" /\ cmdPc = "idle"
  /\ \E tool \in CheckedTools :
       /\ cmdTargets' = <<tool>>
       /\ recommendations' = AsTexts(agentsOut.agents, rulesOut.rules)
       /\ outputs' = generateConfigs(cmdTargets', scan, recommendations')
  /\ project' = WrittenFiles(outputs')
  /\ cmdPc' = "generated"
  /\ \E called \in {"validateConfigs", "analyzeAgents"} :
       /\ valPc' = (IF called = "validateConfigs" THEN "start" ELSE valPc)
       /\ fixPc' = (IF called = "analyzeAgents" THEN "start" ELSE fixPc)
  /\ UNCHANGED <<recVars, adVars, configs, formatIssues, result, globbed, globRejects,
                 prVars, fixResult, cmdScan, offered, options, confirmAction, pos,
                 disk, fsLog>>

\* the single-agent files of the pools, as somebody wrote them
AuthoredAgentFiles ==
  {f \in AgentFilePool \cup ConfigFilePool :
     Includes(f.path, ".claude/agents/") \/ EndsWith(f.path, ".agent.md")}

\* analyzeAgents is called on a project that holds one of them
InitAuthored ==
  /\ project \in {{f} : f \in AuthoredAgentFiles}
  /\ configs = <<>>
  /\ formatIssues = <<>>
  /\ result = NoResult
  /\ valPc = "idle"
  /\ globbed = {}
  /\ globRejects = FALSE
  /\ fixResult = NoFixResult
  /\ fixPc = "start"
  /\ RecommenderIdle
  /\ AdaptersIdle
  /\ PrunerIdle
  /\ CommandsIdle

\* the files are generated ones, or one that somebody wrote
InitGenerated == InitGenerator \/ InitAuthored

NextGenerated ==
  \/ RunRecommendAgents \/ RunRecommendRules \/ WriteGenerated
  \/ ScanExistingConfigs \/ ValidateScanned
  \/ FixerScan \/ AnalyzeScanned

SpecGenerated == InitGenerated /\ [][NextGenerated]_vars

(***************************************************************************)
(* Claims about generated files under the validator and the fixer          *)
(***************************************************************************)
\* C26: the files the Claude, Cursor, Copilot, Windsurf or Amp adapter
\* generates from the output of recommendAgents and recommendRules, written
\* to an otherwise empty project, pass validateConfigs without an
\* error-severity issue, and no per-tool structural check reports anything
\* (frontmatter with name and description in every agent file, the required
\* frontmatter in every .mdc and .instructions.md file, at most 6000
\* characters in .windsurfrules, valid JSON with $schema in settings.json).
C26_GeneratedPassValidation ==
  (cmdPc = "generated") =>
    /\ valPc # "threw"
    /\ valPc = "validated" =>
         /\ result.issues = <<>>
         /\ result.configsValid = result.configsFound
         /\ result.configsFound = Cardinality(project)
         /\ \A i \in 1..Len(formatIssues) : formatIssues[i] = <<>>

\* the Copilot files of a TypeScript project with agents and rules were
\* validated: agent files and instruction files among them
C26_Witness ==
  /\ cmdPc = "generated" /\ valPc = "validated"
  /\ cmdTargets = <<"copilot">>
  /\ \E i, j \in 1..Len(configs) :
       /\ EndsWith(configs[i].filePath, ".agent.md")
       /\ EndsWith(configs[j].filePath, ".instructions.md")
  /\ Len(result.warnings) > 0

\* the path is that of a single-agent file
SingleAgentPath(path) == Includes(path, ".claude/agents/") \/ EndsWith(path, ".agent.md")

\* the records analyzeAgents returned for a file
RecordsOf(path) == Filter(fixResult.agents, LAMBDA a : a.file = path)

\* the name the claim gives a single-agent file
ClaimedName(config) ==
  With(Field(parseFrontmatter(ContentOf(config)), "name"), LAMBDA fmName :
    IF fmName # "" THEN fmName
    ELSE With(extractNameFromHeading(ContentOf(config).head), LAMBDA heading :
           IF heading # "" THEN heading ELSE config.filePath))

\* C27: every file analyzeAgents recognises as a single-agent file
\* (.claude/agents/* or *.agent.md) yields exactly one parsed record, with a
\* non-empty name: the frontmatter name if present, else the first level-1
\* heading, else the file path; for a file ClaudeAdapter.generateAgentFile
\* emitted the recovered name and description are the agent's.
C27_OneNamedRecordPerAgentFile ==
  (fixPc = "analyzed") =>
    /\ \A i \in 1..Len(configs) :
         SingleAgentPath(configs[i].filePath) =>
           With(RecordsOf(configs[i].filePath), LAMBDA records :
             /\ Len(records) = 1
             /\ records[1].name # ""
             /\ records[1].name = ClaimedName(configs[i]))
    /\ (cmdPc = "generated" /\ cmdTargets = <<"claude">>) =>
         \A k \in 1..Len(agentsOut.agents) :
           With(RecordsOf(".claude/agents/" \o agentsOut.agents[k].id \o ".md"),
             LAMBDA records :
               /\ Len(records) = 1
               /\ records[1].name = agentsOut.agents[k].name
               /\ records[1].description = agentsOut.agents[k].description)

\* the agent files Claude generated for a project with a database were
\* analyzed: the Database Expert is among the recovered agents
C27_Witness ==
  /\ fixPc = "analyzed" /\ cmdPc = "generated" /\ cmdTargets = <<"claude">>
  /\ Len(agentsOut.agents) >= 3
  /\ \E k \in 1..Len(fixResult.agents) :
       /\ fixResult.agents[k].file = ".claude/agents/db-expert.md"
       /\ fixResult.agents[k].name = "Database Expert"
       /\ Len(fixResult.agents[k].description) > 40

====
